---- MODULE Spec2Model ----
(***************************************************************************)
(* The background evaluation queue of the exam system                      *)
(* (src/evaluation_queue.py), with the parts of ExamSystem.evaluate_exam   *)
(* (src/utils.py), GroqAnalyzer.evaluate_subjective_answer                 *)
(* (src/groq_analyzer.py) and ExamDatabase (src/db.py) it calls.           *)
(*                                                                         *)
(* Time is counted in seconds.  Absolute clock readings are not kept:      *)
(* every sleep is a countdown that Tick decrements, and the time since an  *)
(* instant is a counter that Tick increments and that saturates at the     *)
(* rate limiter's interval (the code only compares it with that interval). *)
(* A sleep lasts at least its argument, so a sleeper may wake late.        *)
(***************************************************************************)
EXTENDS Integers, Sequences, FiniteSets, TLC

\* ---------------------------------------------------------------- bounds
MaxResults == 2          \* distinct result ids
MaxExams == 1            \* distinct exams
MaxTasks == 2            \* add_task calls in a run
MaxQuestions == 1        \* free-text questions of a task
MaxFailures == 3         \* failed attempts in a run
MaxWorkers == 1          \* worker threads alive at the same time
CoarseStep == 10         \* seconds per step of the clock
\* the ordering scenario
MaxOrderTasks == 3
MaxPriority == 2         \* priorities handed to add_task
MaxOrderFailures == 1
\* the retry scenario
MaxRetryTasks == 1
MaxRetryFailures == 36
FineStep == 2
\* the lifecycle scenario
MaxLifecycleWorkers == 2
\* the rate scenario
MaxRateQuestions == 2
\* the first-in-first-out scenario
MaxFifoTasks == 4
\* the liveness scenario
MaxLiveTasks == 2
MaxLiveFailures == 8
\* the recovery scenario
MaxRecoveryFailures == 1

\* the cleanup scenario
MaxCleanupTasks == 3
MaxCleanupFailures == 1

\* the scoring scenario: option indices 0..MaxOption, answers of up to
\* MaxAnswerLen entries
MaxOption == 2
MaxAnswerLen == 3

\* the shutdown scenario
MaxShutdownFailures == 1
MaxSaveTasks == 2
MaxSaveFailures == 14
MaxDispatchTasks == 2
MaxDispatchQuestions == 2
MaxAdminTasks == 2
MaxAdminFailures == 14
MaxMarks == 2
MaxMalformedFailures == 1
MaxCallbacks == 2
MaxCallbackTasks == 2
MaxCallbackFailures == 1

\* ------------------------------------------------------ program constants
max_long_retries == 6
PauseRecheckDelay == 30
ErrorSleep == 5
cleanup_max_age_hours == 24
JoinTimeout == 5
NoKey == -1
DefaultPriority == 1

ResultIds == 1..MaxResults
Exams == 1..MaxExams

Min(a, b) == IF a < b THEN a ELSE b

VARIABLES
    cfg,             \* the constructor's arguments, kept as fields
    tasks,           \* every EvaluationTask created, in creation order
    loc,             \* where each task object is
    timer,           \* per task: seconds left of the timer thread's sleep
    delay,           \* per task: the argument of that sleep
    queue,           \* _queue: the heap list of PriorityQueue
    status,          \* _status
    progress,        \* _progress
    processing,      \* _processing (its keys)
    since_request,   \* time.time() - _last_request_time, saturated
    running,         \* _running
    worker_thread,   \* _worker_thread (0: None)
    workers,         \* the worker threads
    join_left,       \* seconds left of stop()'s join
    paused,          \* exams.evaluation_paused
    db_status,       \* exam_results.evaluation_status
    db_writes,       \* calls of update_exam_result_with_evaluation that succeeded
    mark_failed,     \* calls of mark_result_as_failed_evaluation
    since_start,     \* time since a worker last started processing a task, saturated
    since_call,      \* time since the latest Evaluator call started, saturated
    probes,          \* whether since_start and since_call are kept (else they rest)
    nfail,           \* failed attempts so far
    recovery,        \* recover_pending_evaluations: its position and its snapshots
    mcq,             \* a call of evaluate_mcq_answer: its arguments and its result
    idle_calls,      \* which of start() on a running queue and stop() on a stopped
                     \* queue have been called so far (kept with probes)
    callbacks,       \* which callback loops have run so far, and for which
                     \* result (kept with probes)
    evaluator_calls, \* the tasks for which the Evaluator has been called so
                     \* far (kept with probes)
    unlocked_writes, \* the fields of the status table and of tasks that have
                     \* been assigned outside "with self._lock" so far (kept
                     \* with probes)
    retry_reply,     \* per result: what the retry route answered last
    db_result,       \* per result: the question results of the evaluation
                     \* that update_exam_result_with_evaluation stored last
    on_complete_callbacks,
                     \* _on_complete_callbacks: per registered callback,
                     \* whether it raises when called
    callback_calls   \* the calls of completion callbacks so far: <<r, i>> is
                     \* callback i called for result r

vars == <<cfg, probes, on_complete_callbacks, callback_calls, db_result, retry_reply, unlocked_writes, evaluator_calls, callbacks, recovery, mcq, idle_calls, tasks, loc, timer, delay, queue, status, progress, processing,
          since_request, running, worker_thread, workers, join_left, paused,
          db_status, db_writes, mark_failed, since_start,
          since_call, nfail>>

\* ------------------------------------------------------------- the heap
\* EvaluationTask is @dataclass(order=True) and priority is its only field
\* with compare=True: task a < task b iff a.priority < b.priority.
TaskLt(ts, a, b) == ts[a].priority < ts[b].priority

\* heapq._siftdown(heap, 0, pos), positions 1-based.
RECURSIVE SiftDown(_, _, _, _)
SiftDown(ts, heap, pos, newitem) ==
    IF pos > 1
    THEN LET parentpos == pos \div 2
             parent == heap[parentpos]
         IN  IF TaskLt(ts, newitem, parent)
             THEN SiftDown(ts, [heap EXCEPT ![pos] = parent], parentpos, newitem)
             ELSE [heap EXCEPT ![pos] = newitem]
    ELSE [heap EXCEPT ![pos] = newitem]

\* heapq.heappush(heap, item): append, then sift the new item towards the root.
HeapPushNoSift(ts, heap, item) == Append(heap, item)

HeapPush(ts, heap, item) ==
    LET h == Append(heap, item)
    IN  SiftDown(ts, h, Len(h), item)

\* heapq._siftup(heap, 0): move the smaller child up until a leaf is reached
\* (the right child when the left one is not smaller), then sift newitem down.
RECURSIVE SiftUpWalk(_, _, _, _)
SiftUpWalk(ts, heap, pos, newitem) ==
    LET endpos == Len(heap)
        childpos == 2 * pos
        rightpos == childpos + 1
    IN  IF childpos <= endpos
        THEN LET c == IF rightpos <= endpos
                         /\ ~TaskLt(ts, heap[childpos], heap[rightpos])
                      THEN rightpos ELSE childpos
             IN  SiftUpWalk(ts, [heap EXCEPT ![pos] = heap[c]], c, newitem)
        ELSE SiftDown(ts, heap, pos, newitem)

\* heapq.heappop(heap): the root is returned; the last item replaces it.
HeapTop(heap) == heap[1]

HeapPop(ts, heap) ==
    LET lastelt == heap[Len(heap)]
        rest == SubSeq(heap, 1, Len(heap) - 1)
    IN  IF rest = <<>> THEN rest
        ELSE SiftUpWalk(ts, [rest EXCEPT ![1] = lastelt], 1, lastelt)


\* --------------------------------------------------------- configuration
\* EvaluationQueue.__init__'s arguments.  The delays are whole seconds.
SmallConfig ==
    [requests_per_minute |-> 6, retry_delay_base |-> 10, max_retry_delay |-> 20,
     max_retries |-> 2, long_retry_delay |-> 20]

\* The configuration of the backoff example: base 2, ceiling 10.
BackoffConfig ==
    [requests_per_minute |-> 12, retry_delay_base |-> 2, max_retry_delay |-> 10,
     max_retries |-> 5, long_retry_delay |-> 12]

\* Every failure escalates at once (max_retries = 1).
EscalateConfig ==
    [requests_per_minute |-> 6, retry_delay_base |-> 10, max_retry_delay |-> 10,
     max_retries |-> 1, long_retry_delay |-> 10]

\* self._min_request_interval = 60.0 / requests_per_minute
MinRequestInterval == 60 \div cfg.requests_per_minute

\* --------------------------------------------------------------- records
\* nfree: the number of questions of type short or essay; nblank: how many
\* of them have an answer that is empty or white space (the last nblank).
NewTaskAnswers(r, p, t, e, n, b) ==
    [result_id |-> r, priority |-> p, created_at |-> t, exam_id |-> e,
     nfree |-> n, nblank |-> b, retry_count |-> 0, max_retries |-> cfg.max_retries,
     long_retry_count |-> 0, max_long_retries |-> max_long_retries]

NewTask(r, p, t, e, n) == NewTaskAnswers(r, p, t, e, n, 0)

NoProgress ==
    [status |-> "none", retry_count |-> NoKey, long_retry_count |-> NoKey,
     completed_at |-> FALSE, failed_at |-> FALSE, can_view_results |-> FALSE,
     completed_old |-> FALSE, failed_old |-> FALSE, total_attempts |-> NoKey]

PendingProgress == [NoProgress EXCEPT !.status = "pending"]

\* recover_pending_evaluations has not been called.
NoRecovery == [pc |-> "idle", found |-> {}, left |-> {}]

\* evaluate_mcq_answer has not been called.
NoMcq == [called |-> FALSE]

\* is_correct, marks_obtained and negative_marks_applied as evaluate_mcq_answer
\* initialises them.  Marks obtained and penalties are counted in hundredths
\* of a mark, a question's marks in whole marks.
NoResult == [is_correct |-> FALSE, marks_obtained |-> 0, negative_marks_applied |-> 0]

NoWorker ==
    [pc |-> "none", task |-> 0, sleep |-> 0, calls_left |-> 0, api_error |-> FALSE,
     question_results |-> <<>>]

TaskIds == 1..Len(tasks)
WorkerIds == DOMAIN workers
Alive(w) == workers[w].pc # "none"

\* ------------------------------------------------------------------ Init
InitQueue(configs, probing, nworkers) ==
    /\ cfg \in configs
    /\ probes = probing
    /\ tasks = <<>>
    /\ loc = <<>>
    /\ timer = <<>>
    /\ delay = <<>>
    /\ queue = <<>>
    /\ status = [r \in ResultIds |-> "none"]
    /\ progress = [r \in ResultIds |-> NoProgress]
    /\ processing = {}
    /\ since_request = 60 \div cfg.requests_per_minute
    /\ running = FALSE
    /\ worker_thread = 0
    /\ workers = [w \in 1..nworkers |-> NoWorker]
    /\ join_left = 0
    /\ paused = [e \in Exams |-> FALSE]
    /\ db_status = [r \in ResultIds |-> "none"]
    /\ db_writes = [r \in ResultIds |-> 0]
    /\ mark_failed = [r \in ResultIds |-> 0]
    /\ since_start = 60 \div cfg.requests_per_minute
    /\ since_call = 60 \div cfg.requests_per_minute
    /\ nfail = 0
    /\ recovery = NoRecovery
    /\ idle_calls = {}
    /\ callbacks = {}
    /\ on_complete_callbacks = <<>>
    /\ callback_calls = {}
    /\ evaluator_calls = {}
    /\ unlocked_writes = {}
    /\ retry_reply = [r \in ResultIds |-> "none"]
    /\ db_result = [r \in ResultIds |-> <<>>]

InitWith(configs, probing, nworkers) ==
    /\ InitQueue(configs, probing, nworkers)
    /\ mcq = NoMcq

Init == InitWith({SmallConfig}, FALSE, MaxWorkers)

\* -------------------------------------------------------------- add_task
\* EvaluationQueue.add_task itself: the task is created and, under the lock,
\* put into the queue, and the status and the progress entry of its result
\* are set to pending.
put_task(r, p, e, n, b, maxTasks) ==
    LET t == Len(tasks) + 1
        ts == Append(tasks, NewTaskAnswers(r, p, t, e, n, b))
    IN  /\ Len(tasks) < maxTasks
        /\ tasks' = ts
        /\ loc' = Append(loc, "queue")
        /\ timer' = Append(timer, 0)
        /\ delay' = Append(delay, 0)
        /\ queue' = HeapPush(ts, queue, t)
        /\ status' = [status EXCEPT ![r] = "pending"]
        /\ progress' = [progress EXCEPT ![r] = PendingProgress]
        /\ UNCHANGED <<cfg, probes, on_complete_callbacks, callback_calls, db_result, unlocked_writes, evaluator_calls, callbacks, mcq, idle_calls, processing, since_request, running, worker_thread,
                       workers, join_left, paused, db_writes,
                       mark_failed, since_start, since_call, nfail>>

\* The submission is persisted (evaluation_status 'pending') before the
\* HTTP layer calls add_task.
add_task_answers(r, p, e, n, b, maxTasks) ==
    /\ put_task(r, p, e, n, b, maxTasks)
    /\ db_status' = [db_status EXCEPT ![r] = IF @ = "none" THEN "pending" ELSE @]
    /\ UNCHANGED retry_reply

\* add_task for a submission every free-text answer of which has text.
add_task(r, p, e, n, maxTasks) == add_task_answers(r, p, e, n, 0, maxTasks)

\* ------------------------------------------------------------ get_status
\* status = self._status.get(result_id, PENDING); progress =
\* self._progress.get(result_id, {}); the returned dict ends with **progress,
\* so a key of the progress entry replaces the computed one.  Of the keys
\* computed from status, the progress entry can hold 'status' and, once a
\* task of the result has completed, 'can_view_results': True.
get_status(r) ==
    LET st == IF status[r] = "none" THEN "pending" ELSE status[r]
        p == progress[r]
    IN  [status |-> IF p.status # "none" THEN p.status ELSE st,
         is_complete |-> st \in {"completed", "failed"},
         can_view_results |-> IF p.can_view_results THEN TRUE
                              ELSE st = "completed"]

\* --------------------------------------------------- evaluate_mcq_answer
\* An entry of a submitted answer that is not a string of digits.
NonDigit == -1

\* candidate_selections: "set(int(a) for a in candidate_answer if
\* str(a).isdigit())"; the entries that are not digits are left out and an
\* index submitted twice counts once.  (A comma-separated string is split
\* into the same entries.)
ParseSelections(candidate_answer) ==
    {candidate_answer[i] : i \in 1..Len(candidate_answer)} \ {NonDigit}

\* round(x, 2) of x = num / den, in hundredths: to the nearest hundredth, a
\* tie to the even one.
Round2(num, den) ==
    LET q == (100 * num) \div den
        r == (100 * num) % den
    IN  IF 2 * r < den THEN q
        ELSE IF 2 * r > den THEN q + 1
        ELSE IF q % 2 = 0 THEN q ELSE q + 1

\* The hundredths cut off instead of rounded.
PartialMarksTruncated(marks, correct_selected, incorrect_selected, total_correct) ==
    IF correct_selected > incorrect_selected
    THEN (100 * marks * (correct_selected - incorrect_selected)) \div total_correct
    ELSE 0

\* "if correct_selected > incorrect_selected: partial_ratio = (correct_selected
\* - incorrect_selected) / len(correct_set); marks_obtained = round(max(0,
\* question['marks'] * partial_ratio), 2)"
PartialMarks(marks, correct_selected, incorrect_selected, total_correct) ==
    IF correct_selected > incorrect_selected
    THEN Round2(marks * (correct_selected - incorrect_selected), total_correct)
    ELSE 0

\* The penalty charged once, whatever the number of wrong selections.
WrongSelectionPenaltyFlat(config, incorrect_selected) ==
    IF incorrect_selected > 0 /\ config.present /\ config.enabled
    THEN config.mcq_negative_marks
    ELSE 0

\* "if incorrect_selected > 0 and negative_marking_config and section_type in
\* negative_marking_config: if section_config.get('enabled', False):
\* negative_marks_applied = mcq_negative_marks * incorrect_selected".
\* config.present: the configuration has an entry for the question's section.
WrongSelectionPenalty(config, incorrect_selected) ==
    IF incorrect_selected > 0 /\ config.present /\ config.enabled
    THEN config.mcq_negative_marks * incorrect_selected
    ELSE 0

\* The penalty of a wrong answer charged whether or not the section's
\* configuration is enabled.
WrongAnswerPenaltyNotEnabled(config) ==
    IF config.present THEN config.mcq_negative_marks ELSE 0

\* The penalty of a wrong single-select answer.
WrongAnswerPenalty(config) ==
    IF config.present /\ config.enabled THEN config.mcq_negative_marks ELSE 0

\* The penalty of a question without an answer.
UnansweredPenalty(config) ==
    IF config.present /\ config.enabled /\ config.apply_to_unanswered
    THEN config.mcq_negative_marks
    ELSE 0

evaluate_mcq_answer(question, candidate_answer, config, mode) ==
    IF question.is_multi_select
    THEN LET candidate_selections == ParseSelections(candidate_answer)
             correct_set == question.correct_answers
             correct_selected == Cardinality(candidate_selections \cap correct_set)
             incorrect_selected == Cardinality(candidate_selections \ correct_set)
         IN  IF candidate_selections # {}
             THEN IF candidate_selections = correct_set
                  THEN [is_correct |-> TRUE,
                        marks_obtained |-> 100 * question.marks,
                        negative_marks_applied |-> 0]
                  ELSE IF mode = "strict"
                  THEN [is_correct |-> FALSE,
                        marks_obtained |-> 0,
                        negative_marks_applied |->
                            WrongSelectionPenalty(config, incorrect_selected)]
                  ELSE [is_correct |-> FALSE,
                        marks_obtained |->
                            PartialMarks(question.marks, correct_selected,
                                         incorrect_selected, Cardinality(correct_set)),
                        negative_marks_applied |->
                            WrongSelectionPenalty(config, incorrect_selected)]
             ELSE [NoResult EXCEPT !.negative_marks_applied = UnansweredPenalty(config)]
    ELSE IF Len(candidate_answer) = 1 /\ candidate_answer[1] # NonDigit
         THEN IF candidate_answer[1] = question.correct_answer
              THEN [is_correct |-> TRUE,
                    marks_obtained |-> 100 * question.marks,
                    negative_marks_applied |-> 0]
              ELSE [NoResult EXCEPT !.negative_marks_applied = WrongAnswerPenalty(config)]
         ELSE [NoResult EXCEPT !.negative_marks_applied = UnansweredPenalty(config)]

\* One call of evaluate_mcq_answer (by _evaluate_mcq, for one question of a
\* task) with the arguments held in mcq.
evaluate_mcq ==
    /\ ~mcq.called
    /\ mcq' = [mcq EXCEPT !.called = TRUE,
                          !.result = evaluate_mcq_answer(mcq.question, mcq.candidate_answer,
                                                         mcq.config, mcq.mode)]
    /\ UNCHANGED <<cfg, probes, on_complete_callbacks, callback_calls, db_result, retry_reply, unlocked_writes, evaluator_calls, callbacks, recovery, idle_calls, tasks, loc, timer, delay, queue,
                   status, progress, processing, since_request, running,
                   worker_thread, workers, join_left, paused, db_status,
                   db_writes, mark_failed, since_start, since_call, nfail>>

\* ------------------------------------------------------- get_queue_stats
\* The counts are taken from _status alone: "sum(1 for s in
\* self._status.values() if s == EvaluationStatus.PROCESSING)" and so on.
StatusCount(st) == Cardinality({r \in ResultIds : status[r] = st})

get_queue_stats ==
    [queue_size |-> Len(queue),
     pending |-> StatusCount("pending"),
     processing |-> StatusCount("processing"),
     completed |-> StatusCount("completed"),
     failed |-> StatusCount("failed"),
     is_running |-> running]

\* ----------------------------------------------------------- start, stop
\* start() and stop() are called by one lifecycle thread: while it is still
\* inside stop()'s join it calls nothing else.
JoinOver ==
    IF join_left = 0 \/ worker_thread = 0 THEN TRUE ELSE ~Alive(worker_thread)

FreeSlots == {w \in WorkerIds : ~Alive(w)}

\* start() without the check of _running.
start_unchecked ==
    /\ JoinOver
    /\ FreeSlots # {}
    /\ LET w == CHOOSE x \in FreeSlots : \A y \in FreeSlots : x <= y
       IN  /\ worker_thread' = w
           /\ workers' = [workers EXCEPT ![w] = [NoWorker EXCEPT !.pc = "loop"]]
    /\ running' = TRUE
    /\ join_left' = 0
    /\ idle_calls' = IF probes /\ running THEN idle_calls \cup {"start"}
                     ELSE idle_calls
    /\ UNCHANGED <<cfg, probes, on_complete_callbacks, callback_calls, db_result, retry_reply, unlocked_writes, evaluator_calls, callbacks, recovery, mcq, tasks, loc, timer, delay, queue, status, progress,
                   processing, since_request, paused, db_status, db_writes, mark_failed, since_start, since_call, nfail>>

start ==
    /\ JoinOver
    /\ IF running
       THEN UNCHANGED <<running, worker_thread, workers>>
       ELSE /\ FreeSlots # {}
            /\ LET w == CHOOSE x \in FreeSlots : \A y \in FreeSlots : x <= y
               IN  /\ worker_thread' = w
                   /\ workers' = [workers EXCEPT ![w] = [NoWorker EXCEPT !.pc = "loop"]]
            /\ running' = TRUE
    /\ join_left' = 0
    /\ idle_calls' = IF probes /\ running THEN idle_calls \cup {"start"}
                     ELSE idle_calls
    /\ UNCHANGED <<cfg, probes, on_complete_callbacks, callback_calls, db_result, retry_reply, unlocked_writes, evaluator_calls, callbacks, recovery, mcq, tasks, loc, timer, delay, queue, status, progress,
                   processing, since_request, paused, db_status, db_writes, mark_failed, since_start, since_call, nfail>>

stop ==
    /\ JoinOver
    /\ running' = FALSE
    /\ join_left' = IF worker_thread = 0 THEN 0
                    ELSE IF Alive(worker_thread) THEN JoinTimeout ELSE 0
    /\ idle_calls' = IF probes /\ ~running THEN idle_calls \cup {"stop"}
                     ELSE idle_calls
    /\ UNCHANGED <<cfg, probes, on_complete_callbacks, callback_calls, db_result, retry_reply, unlocked_writes, evaluator_calls, callbacks, recovery, mcq, tasks, loc, timer, delay, queue, status, progress,
                   processing, since_request, worker_thread, workers, paused,
                   db_status, db_writes, mark_failed, since_start, since_call, nfail>>

\* ------------------------------------------------------------------ time
\* step seconds pass.
Dec(x, step) == IF x > step THEN x - step ELSE 0
Sat(x, step) == Min(x + step, MinRequestInterval)

Tick(step) ==
    /\ timer' = [t \in TaskIds |-> Dec(timer[t], step)]
    /\ workers' = [w \in WorkerIds |-> [workers[w] EXCEPT !.sleep = Dec(@, step)]]
    /\ join_left' = Dec(join_left, step)
    /\ since_request' = Sat(since_request, step)
    /\ since_start' = IF probes THEN Sat(since_start, step) ELSE since_start
    /\ since_call' = IF probes THEN Sat(since_call, step) ELSE since_call
    /\ UNCHANGED <<cfg, probes, on_complete_callbacks, callback_calls, db_result, retry_reply, unlocked_writes, evaluator_calls, callbacks, recovery, mcq, idle_calls, tasks, loc, delay, queue, status, progress, processing,
                   running, worker_thread, paused, db_status, db_writes, mark_failed, nfail>>

\* More than cleanup_max_age_hours pass at once: every timer and every sleep
\* is over, and the completed_at and failed_at that the entries hold now are
\* older than the cutoff of clear_old_status from now on.
CleanupAge == cleanup_max_age_hours * 3600 + 1

day_passes ==
    /\ timer' = [t \in TaskIds |-> Dec(timer[t], CleanupAge)]
    /\ workers' = [w \in WorkerIds |-> [workers[w] EXCEPT !.sleep = Dec(@, CleanupAge)]]
    /\ join_left' = Dec(join_left, CleanupAge)
    /\ since_request' = Sat(since_request, CleanupAge)
    /\ since_start' = IF probes THEN Sat(since_start, CleanupAge) ELSE since_start
    /\ since_call' = IF probes THEN Sat(since_call, CleanupAge) ELSE since_call
    /\ progress' = [r \in ResultIds |->
                       [progress[r] EXCEPT !.completed_old = progress[r].completed_at,
                                           !.failed_old = progress[r].failed_at]]
    /\ UNCHANGED <<cfg, probes, on_complete_callbacks, callback_calls, db_result, retry_reply, unlocked_writes, evaluator_calls, callbacks, recovery, mcq, idle_calls, tasks, loc, delay, queue, status, processing,
                   running, worker_thread, paused, db_status, db_writes, mark_failed, nfail>>

\* The administrator sets or clears an exam's pause flag.
set_exam_evaluation_paused(e) ==
    /\ paused' = [paused EXCEPT ![e] = ~@]
    /\ UNCHANGED <<cfg, probes, on_complete_callbacks, callback_calls, db_result, retry_reply, unlocked_writes, evaluator_calls, callbacks, recovery, mcq, idle_calls, tasks, loc, timer, delay, queue, status, progress,
                   processing, since_request, running, worker_thread, workers,
                   join_left, db_status, db_writes, mark_failed,
                   since_start, since_call, nfail>>


\* ----------------------------------------------------------- worker loop
\* _worker_loop, from "while self._running" to the rate limiter's sleep.
\* With the queue empty the worker sleeps one second and tests again.
\* The loop without its test of _running.
worker_loop_untested(w) ==
    /\ workers[w].pc = "loop"
    /\ queue # <<>>
    /\ workers' = [workers EXCEPT ![w] =
          IF since_request < MinRequestInterval
          THEN [@ EXCEPT !.pc = "ratesleep",
                         !.sleep = MinRequestInterval - since_request]
          ELSE [@ EXCEPT !.pc = "get"]]
    /\ UNCHANGED <<cfg, probes, on_complete_callbacks, callback_calls, db_result, retry_reply, unlocked_writes, evaluator_calls, callbacks, recovery, mcq, idle_calls, tasks, loc, timer, delay, queue, status, progress,
                   processing, since_request, running, worker_thread,
                   join_left, paused, db_status, db_writes,
                   mark_failed, since_start, since_call,
                   nfail>>

worker_loop(w) ==
    /\ workers[w].pc = "loop"
    /\ ~(running /\ queue = <<>>)
    /\ workers' = [workers EXCEPT ![w] =
          IF ~running THEN [@ EXCEPT !.pc = "none"]
          ELSE IF since_request < MinRequestInterval
               THEN [@ EXCEPT !.pc = "ratesleep",
                              !.sleep = MinRequestInterval - since_request]
               ELSE [@ EXCEPT !.pc = "get"]]
    /\ UNCHANGED <<cfg, probes, on_complete_callbacks, callback_calls, db_result, retry_reply, unlocked_writes, evaluator_calls, callbacks, recovery, mcq, idle_calls, tasks, loc, timer, delay, queue, status, progress,
                   processing, since_request, running, worker_thread,
                   join_left, paused, db_status, db_writes,
                   mark_failed, since_start, since_call,
                   nfail>>

\* time.sleep(self._min_request_interval - elapsed) returns.
rate_limit_wake(w) ==
    /\ workers[w].pc = "ratesleep"
    /\ workers[w].sleep = 0
    /\ workers' = [workers EXCEPT ![w].pc = "get"]
    /\ UNCHANGED <<cfg, probes, on_complete_callbacks, callback_calls, db_result, retry_reply, unlocked_writes, evaluator_calls, callbacks, recovery, mcq, idle_calls, tasks, loc, timer, delay, queue, status, progress,
                   processing, since_request, running, worker_thread,
                   join_left, paused, db_status, db_writes,
                   mark_failed, since_start, since_call,
                   nfail>>

\* ---------------------------------------------------------- retry policy
\* delay = min(self.retry_delay_base * (2 ** (task.retry_count - 1)),
\*             self.max_retry_delay)
RetryDelayFromZero(base, cap, rc) == Min(base * 2^rc, cap)

RetryDelay(base, cap, rc) == Min(base * 2^(rc - 1), cap)

\* One more short retry than max_retries allows.
ShortRetryAllowedInclusive(rc, max) == rc <= max

\* "if task.retry_count < task.max_retries", after the increment.
ShortRetryAllowed(rc, max) == rc < max

\* "if task.long_retry_count <= task.max_long_retries", after the increment.
LongRetryAllowedStrict(lrc, max) == lrc < max

LongRetryAllowed(lrc, max) == lrc <= max

\* total_attempts = task.max_retries * task.max_long_retries, the figure in
\* 'error': f'Evaluation failed after {total_attempts} attempts. ...'.
TotalAttempts(task) == task.max_retries * task.max_long_retries

\* The progress entry after "task.retry_count < task.max_retries".
RetryingProgress(p, rc) ==
    [p EXCEPT !.status = "retrying", !.retry_count = rc]

\* The progress entry after "task.long_retry_count <= task.max_long_retries".
LongRetryProgressNoCount(p, rc, lrc) ==
    [p EXCEPT !.status = "long_retry_pending", !.retry_count = rc]

LongRetryProgress(p, rc, lrc) ==
    [p EXCEPT !.status = "long_retry_pending", !.retry_count = rc,
              !.long_retry_count = lrc]

\* ------------------------------------------- a result without its entry
\* clear_old_status has removed the entry of result id r from _status and
\* _progress: "self._progress[result_id]" raises KeyError.
Missing(r) == progress[r].status = "none"

\* The worker thread ends with the exception.
AfterExceptionUncaught(wrec) == NoWorker

\* _worker_loop catches what _process_task raises, prints it and sleeps
\* ErrorSleep seconds; _last_request_time is not set.
AfterException(wrec) == [NoWorker EXCEPT !.pc = "error_sleep", !.sleep = ErrorSleep]

\* An assignment to the fields outside "with self._lock".
WriteUnlocked(fields) ==
    IF probes THEN unlocked_writes \cup fields ELSE unlocked_writes

\* What the except branch of _process_task assigns before it takes the lock:
\* "task.retry_count += 1" and, past the short retries,
\* "task.long_retry_count += 1".
ExceptWrites(task) ==
    IF ShortRetryAllowed(task.retry_count + 1, task.max_retries)
    THEN {"retry_count"}
    ELSE {"retry_count", "long_retry_count"}

\* The except branch of _process_task for a result without its entry: the
\* counters are incremented, the last branch assigns FAILED, and then the
\* update of the entry raises before any timer thread is created and before
\* the result leaves _processing.  st: the status the result had.
ExceptWithoutEntry(task, st) ==
    LET rc == task.retry_count + 1
        lrc == task.long_retry_count + 1
    IN  IF ShortRetryAllowed(rc, task.max_retries)
        THEN [task |-> [task EXCEPT !.retry_count = rc], status |-> st]
        ELSE IF LongRetryAllowed(lrc, task.max_long_retries)
        THEN [task |-> [task EXCEPT !.retry_count = rc, !.long_retry_count = lrc],
              status |-> st]
        ELSE [task |-> [task EXCEPT !.retry_count = rc, !.long_retry_count = lrc],
              status |-> "failed"]

\* clear_old_status, called at the top of the worker's loop: "completed_at =
\* progress.get('completed_at') or progress.get('failed_at')", and the entry
\* goes from _status and _progress when that time is before the cutoff.
OldEntries ==
    {r \in ResultIds :
        IF progress[r].completed_at THEN progress[r].completed_old
        ELSE progress[r].failed_at /\ progress[r].failed_old}

clear_old_status(w) ==
    /\ workers[w].pc = "loop"
    /\ running
    /\ OldEntries # {}
    /\ status' = [r \in ResultIds |-> IF r \in OldEntries THEN "none" ELSE status[r]]
    /\ progress' = [r \in ResultIds |->
                       IF r \in OldEntries THEN NoProgress ELSE progress[r]]
    /\ UNCHANGED <<cfg, probes, on_complete_callbacks, callback_calls, db_result, retry_reply, unlocked_writes, evaluator_calls, callbacks, recovery, mcq, idle_calls, tasks, loc, timer, delay, queue,
                   processing, since_request, running, worker_thread, workers,
                   join_left, paused, db_status, db_writes, mark_failed,
                   since_start, since_call, nfail>>

\* "time.sleep(5)" in the except branch of _worker_loop returns.
error_wake(w) ==
    /\ workers[w].pc = "error_sleep"
    /\ workers[w].sleep = 0
    /\ workers' = [workers EXCEPT ![w].pc = "loop"]
    /\ UNCHANGED <<cfg, probes, on_complete_callbacks, callback_calls, db_result, retry_reply, unlocked_writes, evaluator_calls, callbacks, recovery, mcq, idle_calls, tasks, loc, timer, delay, queue, status, progress,
                   processing, since_request, running, worker_thread,
                   join_left, paused, db_status, db_writes,
                   mark_failed, since_start, since_call,
                   nfail>>

\* self._queue.get(timeout=1) and _process_task up to the evaluation: the
\* pause check, and either the re-check timer or the marking as processing.
process_task(w) ==
    /\ workers[w].pc = "get"
    /\ IF queue = <<>>
       THEN /\ workers' = [workers EXCEPT ![w].pc = "loop"]
            /\ UNCHANGED <<tasks, loc, timer, delay, queue, status, progress,
                           processing, since_request, since_start,
                           unlocked_writes>>
       ELSE LET t == HeapTop(queue)
                r == tasks[t].result_id
                ex == ExceptWithoutEntry(tasks[t], "processing")
            IN  /\ queue' = HeapPop(tasks, queue)
                /\ IF paused[tasks[t].exam_id]
                   THEN IF Missing(r)
                        THEN /\ loc' = [loc EXCEPT ![t] = "lost"]
                             /\ workers' = [workers EXCEPT ![w] = AfterException(@)]
                             /\ UNCHANGED <<tasks, timer, delay, status, progress,
                                            processing, since_request, since_start,
                                            unlocked_writes>>
                        ELSE /\ progress' = [progress EXCEPT ![r].status = "paused"]
                             /\ loc' = [loc EXCEPT ![t] = "pause_timer"]
                             /\ timer' = [timer EXCEPT ![t] = PauseRecheckDelay]
                             /\ delay' = [delay EXCEPT ![t] = PauseRecheckDelay]
                             /\ since_request' = 0
                             /\ workers' = [workers EXCEPT ![w].pc = "loop"]
                             /\ UNCHANGED <<tasks, status, processing, since_start,
                                            unlocked_writes>>
                   ELSE IF Missing(r)
                        THEN /\ tasks' = [tasks EXCEPT ![t] = ex.task]
                             /\ status' = [status EXCEPT ![r] = ex.status]
                             /\ processing' = processing \cup {r}
                             /\ loc' = [loc EXCEPT ![t] = "lost"]
                             /\ workers' = [workers EXCEPT ![w] = AfterException(@)]
                             /\ unlocked_writes' = WriteUnlocked(ExceptWrites(tasks[t]))
                             /\ UNCHANGED <<timer, delay, progress, since_request,
                                            since_start>>
                        ELSE /\ status' = [status EXCEPT ![r] = "processing"]
                             /\ processing' = processing \cup {r}
                             /\ progress' = [progress EXCEPT ![r].status = "processing"]
                             /\ loc' = [loc EXCEPT ![t] = "worker"]
                             /\ workers' = [workers EXCEPT ![w] =
                                   [@ EXCEPT !.pc = "eval", !.task = t,
                                             !.calls_left = tasks[t].nfree,
                                             !.api_error = FALSE]]
                             /\ since_start' = IF probes THEN 0 ELSE since_start
                             /\ UNCHANGED <<tasks, timer, delay, since_request,
                                            unlocked_writes>>
    /\ UNCHANGED <<cfg, probes, on_complete_callbacks, callback_calls, db_result, retry_reply, evaluator_calls, callbacks, recovery, mcq, idle_calls, running, worker_thread, join_left, paused,
                   db_status, db_writes, mark_failed, since_call, nfail>>

\* The result of a free-text question that got a response the Evaluator
\* could not parse, were it not flagged.
QuestionResultUnflagged(response, m) ==
    [response |-> response, marks_obtained |-> IF response = "parsed" THEN m ELSE 0,
     needs_manual_review |-> FALSE]

\* The entry of question_results for a free-text question.  "parsed": the
\* marks the Evaluator awarded, clamped to 0..marks.  "unparseable"
\* (json.JSONDecodeError) and "api_error" (any other exception, on every
\* key): 'marks_awarded': 0, 'needs_manual_review': True.  "blank": no call,
\* 0 marks, 'needs_manual_review': False.
QuestionResult(response, m) ==
    [response |-> response, marks_obtained |-> IF response = "parsed" THEN m ELSE 0,
     needs_manual_review |-> response \in {"unparseable", "api_error"}]

\* The question results are kept with probes.
AddResult(wrec, result) ==
    IF probes THEN Append(wrec.question_results, result) ELSE wrec.question_results

\* Every answer counts as text: the Evaluator is called for it.
AnswerNeverBlank(task, k) == FALSE

\* "if not candidate_answer.strip():" for the free-text question the worker
\* reaches with k of them left.
AnswerIsBlank(task, k) == k <= task.nblank

\* _evaluate_subjective with an answer that is empty or white space: it
\* returns 'No answer provided.' with 0 marks and does not call the Evaluator.
evaluate_subjective_blank(w) ==
    /\ workers[w].pc = "eval"
    /\ workers[w].calls_left > 0
    /\ AnswerIsBlank(tasks[workers[w].task], workers[w].calls_left)
    /\ workers' = [workers EXCEPT ![w].calls_left = @ - 1,
                                  ![w].question_results =
                                      AddResult(workers[w], QuestionResult("blank", 0))]
    /\ UNCHANGED <<cfg, probes, on_complete_callbacks, callback_calls, db_result, retry_reply, unlocked_writes, evaluator_calls, callbacks, recovery, mcq, idle_calls, tasks, loc, timer, delay, queue, status, progress,
                   processing, since_request, running, worker_thread,
                   join_left, paused, db_status, db_writes,
                   mark_failed, since_start, since_call, nfail>>

\* ExamSystem.evaluate_exam reaches a free-text question and calls
\* _evaluate_subjective, which calls the Evaluator through
\* evaluate_subjective_answer; the question gets a result whatever the
\* response is, and evaluate_exam goes on with the next question.
evaluate_subjective_answer(w, response, m) ==
    /\ workers[w].pc = "eval"
    /\ workers[w].calls_left > 0
    /\ ~AnswerIsBlank(tasks[workers[w].task], workers[w].calls_left)
    /\ workers' = [workers EXCEPT ![w].calls_left = @ - 1,
                                  ![w].api_error = @ \/ response = "api_error",
                                  ![w].question_results =
                                      AddResult(workers[w], QuestionResult(response, m))]
    /\ since_call' = IF probes THEN 0 ELSE since_call
    /\ evaluator_calls' = IF probes THEN evaluator_calls \cup {workers[w].task}
                          ELSE evaluator_calls
    /\ UNCHANGED <<cfg, probes, on_complete_callbacks, callback_calls, db_result, retry_reply, unlocked_writes, callbacks, recovery, mcq, idle_calls, tasks, loc, timer, delay, queue, status, progress,
                   processing, since_request, running, worker_thread,
                   join_left, paused, db_status, db_writes,
                   mark_failed, since_start, nfail>>

\* The call with a response that parses (the question then has 1 mark and
\* gets it), or, ok = FALSE, the call that fails with a network, rate-limit
\* or quota error on every key.
evaluate_subjective(w, ok) ==
    evaluate_subjective_answer(w, IF ok THEN "parsed" ELSE "api_error", 1)


\* The loop stops at the first callback that raises.
CallbacksCalledUntilRaise(cbs) ==
    {i \in 1..Len(cbs) : \A j \in 1..(i - 1) : ~cbs[j]}

\* "for callback in self._on_complete_callbacks: try: callback(result_id,
\* evaluation_result) except: pass": the callbacks that the loop calls.  Each
\* call is in a try of its own with a bare except, so the loop goes on after
\* a callback that raises.
CallbacksCalled(cbs) == 1..Len(cbs)

\* on_complete(callback): the callback is appended to the list.  raises: the
\* callback raises when it is called.
on_complete(raises, maxCallbacks) ==
    /\ Len(on_complete_callbacks) < maxCallbacks
    /\ on_complete_callbacks' = Append(on_complete_callbacks, raises)
    /\ UNCHANGED <<cfg, probes, callback_calls, db_result, retry_reply, unlocked_writes,
                   evaluator_calls, callbacks, recovery, mcq, idle_calls, tasks, loc,
                   timer, delay, queue, status, progress, processing, since_request,
                   running, worker_thread, workers, join_left, paused, db_status,
                   db_writes, mark_failed, since_start, since_call, nfail>>

\* "for callback in self._on_complete_callbacks" and "for callback in
\* self._on_error_callbacks": the loop over the callbacks of one kind runs
\* for result id r.
RunCallbacks(kind, r) == IF probes THEN callbacks \cup {<<kind, r>>} ELSE callbacks

\* The worker goes on as after a successful save whatever the save returned.
SaveSucceededAlways(success) == TRUE

\* "success = self._save_evaluation_result(task, evaluation_result)",
\* "if success:".  _save_evaluation_result turns an exception of the
\* database call into False.
SaveSucceeded(success) == success

\* The rest of _process_task: the evaluation has produced its result (local
\* scoring of the multiple-choice questions included) or has raised; the
\* result is saved.  saved = FALSE: the evaluation raised, or
\* update_exam_result_with_evaluation returned False or raised: the except
\* branch runs.  marked: what mark_result_as_failed_evaluation returns when
\* that branch calls it.  Then _worker_loop sets _last_request_time.
finish_task(w, saved, marked, maxFails) ==
    LET t == workers[w].task
        r == tasks[t].result_id
        rc == tasks[t].retry_count + 1
        lrc == tasks[t].long_retry_count + 1
        ex == ExceptWithoutEntry(tasks[t], IF saved THEN "completed" ELSE status[r])
    IN  /\ workers[w].pc = "eval"
        /\ workers[w].calls_left = 0
        /\ IF Missing(r)
           THEN /\ IF saved
                   THEN /\ db_writes' = [db_writes EXCEPT ![r] = @ + 1]
                        /\ db_status' = [db_status EXCEPT ![r] = "completed"]
                        /\ UNCHANGED nfail
                   ELSE /\ nfail < maxFails
                        /\ nfail' = nfail + 1
                        /\ UNCHANGED <<db_writes, db_status>>
                /\ tasks' = [tasks EXCEPT ![t] = ex.task]
                /\ status' = [status EXCEPT ![r] = ex.status]
                /\ loc' = [loc EXCEPT ![t] = "lost"]
                /\ UNCHANGED <<progress, processing, timer, delay, mark_failed,
                               callbacks, callback_calls>>
           ELSE IF SaveSucceeded(saved)
           THEN /\ db_writes' = [db_writes EXCEPT ![r] = IF saved THEN @ + 1 ELSE @]
                /\ db_status' = [db_status EXCEPT ![r] = IF saved THEN "completed" ELSE @]
                /\ status' = [status EXCEPT ![r] = "completed"]
                /\ callbacks' = RunCallbacks("complete", r)
                /\ callback_calls' = callback_calls \cup
                       {<<r, i>> : i \in CallbacksCalled(on_complete_callbacks)}
                /\ progress' = [progress EXCEPT ![r].status = "completed",
                                                ![r].completed_at = TRUE,
                                                ![r].completed_old = FALSE,
                                                ![r].can_view_results = TRUE]
                /\ processing' = processing \ {r}
                /\ loc' = [loc EXCEPT ![t] = "completed"]
                /\ UNCHANGED <<tasks, timer, delay, mark_failed, nfail>>
           ELSE /\ nfail < maxFails
                /\ nfail' = nfail + 1
                /\ IF ShortRetryAllowed(rc, tasks[t].max_retries)
                   THEN LET d == RetryDelay(cfg.retry_delay_base, cfg.max_retry_delay, rc)
                        IN  /\ tasks' = [tasks EXCEPT ![t].retry_count = rc]
                            /\ progress' = [progress EXCEPT ![r] = RetryingProgress(@, rc)]
                            /\ loc' = [loc EXCEPT ![t] = "retry_timer"]
                            /\ timer' = [timer EXCEPT ![t] = d]
                            /\ delay' = [delay EXCEPT ![t] = d]
                            /\ UNCHANGED <<status, processing, mark_failed, db_status,
                                           callbacks>>
                   ELSE IF LongRetryAllowed(lrc, tasks[t].max_long_retries)
                   THEN /\ tasks' = [tasks EXCEPT ![t].retry_count = rc,
                                                  ![t].long_retry_count = lrc]
                        /\ progress' = [progress EXCEPT ![r] = LongRetryProgress(@, rc, lrc)]
                        /\ processing' = processing \ {r}
                        /\ loc' = [loc EXCEPT ![t] = "long_timer"]
                        /\ timer' = [timer EXCEPT ![t] = cfg.long_retry_delay]
                        /\ delay' = [delay EXCEPT ![t] = cfg.long_retry_delay]
                        /\ UNCHANGED <<status, mark_failed, db_status, callbacks>>
                   ELSE /\ tasks' = [tasks EXCEPT ![t].retry_count = rc,
                                                  ![t].long_retry_count = lrc]
                        /\ status' = [status EXCEPT ![r] = "failed"]
                        /\ progress' = [progress EXCEPT ![r].status = "failed",
                                                        ![r].failed_at = TRUE,
                                                        ![r].total_attempts =
                                                            TotalAttempts(tasks[t]),
                                                        ![r].failed_old = FALSE]
                        /\ processing' = processing \ {r}
                        /\ mark_failed' = [mark_failed EXCEPT ![r] = @ + 1]
                        /\ db_status' = [db_status EXCEPT ![r] =
                                            IF marked THEN "failed" ELSE @]
                        /\ loc' = [loc EXCEPT ![t] = "failed"]
                        /\ callbacks' = RunCallbacks("error", r)
                        /\ UNCHANGED <<timer, delay>>
                /\ UNCHANGED <<db_writes, callback_calls>>
        /\ IF Missing(r)
           THEN /\ workers' = [workers EXCEPT ![w] = AfterException(@)]
                /\ UNCHANGED since_request
           ELSE /\ workers' = [workers EXCEPT ![w] = [NoWorker EXCEPT !.pc = "loop"]]
                /\ since_request' = 0
        /\ unlocked_writes' = IF ~Missing(r) /\ SaveSucceeded(saved)
                              THEN unlocked_writes
                              ELSE WriteUnlocked(ExceptWrites(tasks[t]))
        /\ db_result' = IF saved
                        THEN [db_result EXCEPT ![r] = workers[w].question_results]
                        ELSE db_result
        /\ UNCHANGED <<cfg, probes, on_complete_callbacks, retry_reply, evaluator_calls, recovery, mcq, idle_calls, queue, running, worker_thread, join_left, paused,
                       since_start, since_call>>

\* ---------------------------------------------------------- timer threads
\* retry_task and requeue_paused_task: time.sleep(delay), then
\* "if self._running: self._queue.put(task)".
retry_task(t) ==
    /\ loc[t] = "retry_timer"
    /\ timer[t] = 0
    /\ IF running
       THEN /\ queue' = HeapPush(tasks, queue, t)
            /\ loc' = [loc EXCEPT ![t] = "queue"]
       ELSE /\ loc' = [loc EXCEPT ![t] = "dropped"]
            /\ UNCHANGED queue
    /\ delay' = [delay EXCEPT ![t] = 0]
    /\ UNCHANGED <<cfg, probes, on_complete_callbacks, callback_calls, db_result, retry_reply, unlocked_writes, evaluator_calls, callbacks, recovery, mcq, idle_calls, tasks, timer, status, progress, processing,
                   since_request, running, worker_thread, workers, join_left,
                   paused, db_status, db_writes, mark_failed,
                   since_start, since_call, nfail>>

requeue_paused_task(t) ==
    /\ loc[t] = "pause_timer"
    /\ timer[t] = 0
    /\ IF running
       THEN /\ queue' = HeapPush(tasks, queue, t)
            /\ loc' = [loc EXCEPT ![t] = "queue"]
       ELSE /\ loc' = [loc EXCEPT ![t] = "dropped"]
            /\ UNCHANGED queue
    /\ delay' = [delay EXCEPT ![t] = 0]
    /\ UNCHANGED <<cfg, probes, on_complete_callbacks, callback_calls, db_result, retry_reply, unlocked_writes, evaluator_calls, callbacks, recovery, mcq, idle_calls, tasks, timer, status, progress, processing,
                   since_request, running, worker_thread, workers, join_left,
                   paused, db_status, db_writes, mark_failed,
                   since_start, since_call, nfail>>

\* The task goes back with the priority it had.
LongRetryKeepsPriority(task) == [task EXCEPT !.retry_count = 0]

\* What long_retry_task assigns to the task before it puts it back.
LongRetryNoReset(task) == [task EXCEPT !.priority = 0]

LongRetryReset(task) == [task EXCEPT !.retry_count = 0, !.priority = 0]

\* long_retry_task without its last statement, "self._queue.put(task)".
long_retry_task_no_put(t) ==
    LET r == tasks[t].result_id
    IN  /\ loc[t] = "long_timer"
        /\ timer[t] = 0
        /\ IF running
           THEN /\ tasks' = [tasks EXCEPT ![t] = LongRetryReset(@)]
                /\ status' = [status EXCEPT ![r] = "pending"]
                /\ progress' = [progress EXCEPT ![r].status = "pending"]
           ELSE UNCHANGED <<tasks, status, progress>>
        /\ unlocked_writes' = IF running THEN WriteUnlocked({"retry_count", "priority"})
                              ELSE unlocked_writes
        /\ loc' = [loc EXCEPT ![t] = "dropped"]
        /\ delay' = [delay EXCEPT ![t] = 0]
        /\ UNCHANGED <<cfg, probes, on_complete_callbacks, callback_calls, db_result, retry_reply, evaluator_calls, callbacks, recovery, mcq, idle_calls, timer, queue, processing, since_request,
                       running, worker_thread, workers, join_left, paused,
                       db_status, db_writes, mark_failed, since_start,
                       since_call, nfail>>

\* long_retry_task: time.sleep(self.long_retry_delay), then, if
\* self._running, the reset of the task, the pending status and the put.
long_retry_task(t) ==
    LET r == tasks[t].result_id
        ts == [tasks EXCEPT ![t] = LongRetryReset(@)]
    IN  /\ loc[t] = "long_timer"
        /\ timer[t] = 0
        /\ IF running
           THEN /\ tasks' = ts
                /\ status' = [status EXCEPT ![r] = "pending"]
                /\ IF Missing(r)
                   THEN /\ loc' = [loc EXCEPT ![t] = "lost"]
                        /\ UNCHANGED <<progress, queue>>
                   ELSE /\ progress' = [progress EXCEPT ![r].status = "pending"]
                        /\ queue' = HeapPush(ts, queue, t)
                        /\ loc' = [loc EXCEPT ![t] = "queue"]
           ELSE /\ loc' = [loc EXCEPT ![t] = "dropped"]
                /\ UNCHANGED <<tasks, status, progress, queue>>
        /\ unlocked_writes' = IF running THEN WriteUnlocked({"retry_count", "priority"})
                              ELSE unlocked_writes
        /\ delay' = [delay EXCEPT ![t] = 0]
        /\ UNCHANGED <<cfg, probes, on_complete_callbacks, callback_calls, db_result, retry_reply, evaluator_calls, callbacks, recovery, mcq, idle_calls, timer, processing, since_request, running,
                       worker_thread, workers, join_left, paused, db_status,
                       db_writes, mark_failed, since_start, since_call, nfail>>

\* ------------------------------------------------- the two-step completion
\* The worker goes on as after a successful save although nothing was written.
save_evaluation_result_unchecked(w) ==
    /\ workers[w].pc = "eval"
    /\ workers[w].calls_left = 0
    /\ workers' = [workers EXCEPT ![w].pc = "saved"]
    /\ UNCHANGED <<cfg, probes, on_complete_callbacks, callback_calls, db_result, retry_reply, unlocked_writes, evaluator_calls, callbacks, recovery, mcq, idle_calls, tasks, loc, timer, delay, queue,
                   status, progress, processing, since_request, running,
                   worker_thread, join_left, paused, db_status, db_writes,
                   mark_failed, since_start, since_call, nfail>>

\* _save_evaluation_result returns True: update_exam_result_with_evaluation
\* has committed its transaction (one commit for the whole result).
save_evaluation_result(w) ==
    LET r == tasks[workers[w].task].result_id
    IN  /\ workers[w].pc = "eval"
        /\ workers[w].calls_left = 0
        /\ db_writes' = [db_writes EXCEPT ![r] = @ + 1]
        /\ db_status' = [db_status EXCEPT ![r] = "completed"]
        /\ db_result' = [db_result EXCEPT ![r] = workers[w].question_results]
        /\ workers' = [workers EXCEPT ![w].pc = "saved"]
        /\ UNCHANGED <<cfg, probes, on_complete_callbacks, callback_calls, retry_reply, unlocked_writes, evaluator_calls, callbacks, recovery, mcq, idle_calls, tasks, loc, timer, delay, queue,
                       status, progress, processing, since_request, running,
                       worker_thread, join_left, paused, mark_failed,
                       since_start, since_call, nfail>>

\* "if success:" the status and the progress entry become completed; then
\* _worker_loop sets _last_request_time.
mark_completed(w) ==
    LET t == workers[w].task
        r == tasks[t].result_id
        ex == ExceptWithoutEntry(tasks[t], "completed")
    IN  /\ workers[w].pc = "saved"
        /\ IF Missing(r)
           THEN /\ tasks' = [tasks EXCEPT ![t] = ex.task]
                /\ status' = [status EXCEPT ![r] = ex.status]
                /\ loc' = [loc EXCEPT ![t] = "lost"]
                /\ workers' = [workers EXCEPT ![w] = AfterException(@)]
                /\ unlocked_writes' = WriteUnlocked(ExceptWrites(tasks[t]))
                /\ UNCHANGED <<progress, processing, since_request, callbacks,
                               callback_calls>>
           ELSE /\ status' = [status EXCEPT ![r] = "completed"]
                /\ callbacks' = RunCallbacks("complete", r)
                /\ callback_calls' = callback_calls \cup
                       {<<r, i>> : i \in CallbacksCalled(on_complete_callbacks)}
                /\ progress' = [progress EXCEPT ![r].status = "completed",
                                                ![r].completed_at = TRUE,
                                                ![r].completed_old = FALSE,
                                                ![r].can_view_results = TRUE]
                /\ processing' = processing \ {r}
                /\ loc' = [loc EXCEPT ![t] = "completed"]
                /\ workers' = [workers EXCEPT ![w] = [NoWorker EXCEPT !.pc = "loop"]]
                /\ since_request' = 0
                /\ UNCHANGED <<tasks, unlocked_writes>>
        /\ UNCHANGED <<cfg, probes, on_complete_callbacks, db_result, retry_reply, evaluator_calls, recovery, mcq, idle_calls, timer, delay, queue, running,
                       worker_thread, join_left, paused, db_status, db_writes,
                       mark_failed, since_start, since_call, nfail>>

\* ------------------------------------------------- crash, startup recovery
\* The process dies and is started again: what is in memory is lost, the
\* database stays.  A new EvaluationQueue is constructed.
crash ==
    /\ tasks' = <<>>
    /\ loc' = <<>>
    /\ timer' = <<>>
    /\ delay' = <<>>
    /\ queue' = <<>>
    /\ status' = [r \in ResultIds |-> "none"]
    /\ progress' = [r \in ResultIds |-> NoProgress]
    /\ processing' = {}
    /\ since_request' = MinRequestInterval
    /\ running' = FALSE
    /\ worker_thread' = 0
    /\ workers' = [w \in WorkerIds |-> NoWorker]
    /\ join_left' = 0
    /\ recovery' = NoRecovery
    /\ on_complete_callbacks' = <<>>
    /\ UNCHANGED <<cfg, probes, callback_calls, db_result, retry_reply, unlocked_writes, evaluator_calls, callbacks, mcq, idle_calls, paused, db_status, db_writes, mark_failed,
                   since_start, since_call, nfail>>

\* The submit route, once the application has started: the result, with a new
\* result id, is stored with evaluation_status 'pending' and add_task is called.
submit_exam(r, e, n, maxTasks) ==
    /\ recovery.pc = "done"
    /\ db_status[r] = "none"
    /\ add_task(r, DefaultPriority, e, n, maxTasks)
    /\ UNCHANGED recovery

\* startup_event: evaluation_queue.start(), then recover_pending_evaluations.
startup_start ==
    /\ recovery.pc = "idle"
    /\ ~running
    /\ start

\* The rows the recovery query selects:
\* "WHERE er.evaluation_status IN ('pending', 'processing')".
PendingResults == {r \in ResultIds : db_status[r] \in {"pending", "processing"}}

\* pending_results = db.get_pending_results_for_recovery(); ok = FALSE: the
\* query fails and the function returns [].
get_pending_results_for_recovery(ok) ==
    LET found == IF ok THEN PendingResults ELSE {}
    IN  /\ recovery.pc = "idle"
        /\ running
        /\ recovery' = [pc |-> IF found = {} THEN "done" ELSE "adding",
                        found |-> found, left |-> found]
        /\ UNCHANGED <<cfg, probes, on_complete_callbacks, callback_calls, db_result, retry_reply, unlocked_writes, evaluator_calls, callbacks, mcq, idle_calls, tasks, loc, timer, delay, queue, status,
                       progress, processing, since_request, running,
                       worker_thread, workers, join_left, paused, db_status,
                       db_writes, mark_failed, since_start, since_call, nfail>>

\* The turn with add_task's default priority instead of priority=0.
recover_add_default_priority(r, e, n, maxTasks) ==
    /\ recovery.pc = "adding"
    /\ r \in recovery.left
    /\ add_task(r, DefaultPriority, e, n, maxTasks)
    /\ recovery' = [recovery EXCEPT !.left = @ \ {r},
                                    !.pc = IF recovery.left = {r} THEN "done" ELSE @]

\* One turn of "for result in pending_results": add_task(..., priority=0).
\* The exam and the questions are those of the stored result.
recover_add(r, e, n, maxTasks) ==
    /\ recovery.pc = "adding"
    /\ r \in recovery.left
    /\ add_task(r, 0, e, n, maxTasks)
    /\ recovery' = [recovery EXCEPT !.left = @ \ {r},
                                    !.pc = IF recovery.left = {r} THEN "done" ELSE @]

\* ------------------------------------------------------ the retry route
\* db.retry_failed_evaluation: "UPDATE exam_results SET evaluation_status =
\* 'pending' ... WHERE id = ? AND evaluation_status = 'failed'"; True when a
\* row was updated.
retry_failed_evaluation(r) == db_status[r] = "failed"

\* POST /api/retry-evaluation/{result_id}.  Without an updated row the route
\* answers 'Result not found or not in failed state'.  found = FALSE: the
\* query for the pending results fails and returns [], and the route answers
\* 'Could not retrieve result data for retry' with the stored status already
\* pending.  Else add_task(..., priority=0) with the exam and the questions
\* of the stored result.
retry_evaluation(r, e, n, found, maxTasks) ==
    /\ IF ~retry_failed_evaluation(r)
       THEN /\ retry_reply' = [retry_reply EXCEPT ![r] = "refused"]
            /\ UNCHANGED <<cfg, probes, on_complete_callbacks, callback_calls, db_result, unlocked_writes, evaluator_calls, callbacks, mcq,
                           idle_calls, tasks, loc, timer, delay, queue, status,
                           progress, processing, since_request, running,
                           worker_thread, workers, join_left, paused, db_status,
                           db_writes, mark_failed, since_start, since_call, nfail>>
       ELSE /\ db_status' = [db_status EXCEPT ![r] = "pending"]
            /\ IF found
               THEN /\ put_task(r, 0, e, n, 0, maxTasks)
                    /\ retry_reply' = [retry_reply EXCEPT ![r] = "requeued"]
               ELSE /\ retry_reply' = [retry_reply EXCEPT ![r] = "error"]
                    /\ UNCHANGED <<cfg, probes, on_complete_callbacks, callback_calls, db_result, unlocked_writes, evaluator_calls, callbacks,
                                   mcq, idle_calls, tasks, loc, timer, delay, queue,
                                   status, progress, processing, since_request,
                                   running, worker_thread, workers, join_left,
                                   paused, db_writes, mark_failed, since_start,
                                   since_call, nfail>>
    /\ UNCHANGED recovery

\* ------------------------------------------------------- specifications
Submit(maxTasks, priorities, maxQuestions) ==
    \E r \in ResultIds, p \in priorities, e \in Exams, n \in 0..maxQuestions :
        add_task(r, p, e, n, maxTasks) /\ UNCHANGED recovery

Pause == \E e \in Exams : set_exam_evaluation_paused(e)

Worker(maxFails) ==
    \/ \E w \in WorkerIds : worker_loop(w)
    \/ \E w \in WorkerIds : rate_limit_wake(w)
    \/ \E w \in WorkerIds : process_task(w)
    \/ \E w \in WorkerIds, saved \in BOOLEAN, marked \in BOOLEAN :
          finish_task(w, saved, marked, maxFails)

Evaluator == \E w \in WorkerIds, ok \in BOOLEAN : evaluate_subjective(w, ok)

ShortRetry == \E t \in TaskIds : retry_task(t)
LongRetry == \E t \in TaskIds : long_retry_task(t)
PauseRecheck == \E t \in TaskIds : requeue_paused_task(t)

\* One worker thread at a time, two tasks: every operation, both retry tiers.
Next ==
    \/ Submit(MaxTasks, {DefaultPriority}, MaxQuestions)
    \/ Pause
    \/ Tick(CoarseStep)
    \/ start
    \/ stop
    \/ Worker(MaxFailures)
    \/ Evaluator
    \/ ShortRetry
    \/ LongRetry
    \/ PauseRecheck

Spec == Init /\ [][Next]_vars

\* The ordering scenario: more tasks, every priority, multiple-choice
\* questions only; a failure escalates at once.
InitOrder == InitWith({EscalateConfig}, FALSE, MaxWorkers)

NextOrder ==
    \/ Submit(MaxOrderTasks, 0..MaxPriority, 0)
    \/ Tick(CoarseStep)
    \/ start
    \/ Worker(MaxOrderFailures)
    \/ LongRetry

SpecOrder == InitOrder /\ [][NextOrder]_vars

\* The retry scenario: one task that may fail until it fails for good, with
\* the configuration of the backoff example.
InitRetry == InitWith({BackoffConfig}, FALSE, MaxWorkers)

NextRetry ==
    \/ Submit(MaxRetryTasks, {DefaultPriority}, MaxQuestions)
    \/ Pause
    \/ Tick(FineStep)
    \/ start
    \/ stop
    \/ Worker(MaxRetryFailures)
    \/ Evaluator
    \/ ShortRetry
    \/ LongRetry
    \/ PauseRecheck

SpecRetry == InitRetry /\ [][NextRetry]_vars

\* The lifecycle scenario: stop() and start() with the previous worker thread
\* still alive; no attempt fails, no exam is paused.
InitLifecycle == InitWith({SmallConfig}, TRUE, MaxLifecycleWorkers)

NextLifecycle ==
    \/ Submit(MaxTasks, {DefaultPriority}, 0)
    \/ Tick(FineStep)
    \/ start
    \/ stop
    \/ Worker(0)

SpecLifecycle == InitLifecycle /\ [][NextLifecycle]_vars

\* The rate scenario: one worker that is never stopped, tasks with several
\* free-text questions.
InitRate == InitWith({SmallConfig}, TRUE, MaxWorkers)

NextRate ==
    \/ Submit(MaxTasks, {DefaultPriority}, MaxRateQuestions)
    \/ Tick(CoarseStep)
    \/ start
    \/ Worker(0)
    \/ Evaluator

SpecRate == InitRate /\ [][NextRate]_vars

\* The first-in-first-out scenario: tasks of one priority, no failure.
NextFifo ==
    \/ Submit(MaxFifoTasks, {DefaultPriority}, 0)
    \/ Tick(CoarseStep)
    \/ start
    \/ Worker(0)

SpecFifo == InitOrder /\ [][NextFifo]_vars

\* The liveness scenario: the worker is started and never stopped; the worker
\* thread and every timer thread are scheduled fairly, and time advances.
\* Multiple-choice questions only: an evaluation takes one step.
NextLive ==
    \/ Submit(MaxLiveTasks, {DefaultPriority}, 0)
    \/ Pause
    \/ Tick(CoarseStep)
    \/ start
    \/ Worker(MaxLiveFailures)
    \/ LongRetry
    \/ PauseRecheck

Fairness ==
    /\ WF_vars(start)
    /\ WF_vars(Tick(CoarseStep))
    /\ WF_vars(Worker(MaxLiveFailures))
    /\ WF_vars(LongRetry)
    /\ WF_vars(PauseRecheck)

LiveSpec == InitOrder /\ [][NextLive]_vars /\ Fairness

\* The shutdown scenario: start() and stop() in any order with up to
\* MaxLifecycleWorkers thread slots, tasks with a free-text question, a
\* failed attempt.  Every worker thread is scheduled fairly, time advances,
\* and an Evaluator call in progress returns.
ThreadStep(w, maxFails) ==
    \/ worker_loop(w)
    \/ rate_limit_wake(w)
    \/ process_task(w)
    \/ \E ok \in BOOLEAN : evaluate_subjective(w, ok)
    \/ \E saved \in BOOLEAN, marked \in BOOLEAN : finish_task(w, saved, marked, maxFails)

InitShutdown == InitWith({SmallConfig}, FALSE, MaxLifecycleWorkers)

NextShutdown ==
    \/ Submit(MaxTasks, {DefaultPriority}, MaxQuestions)
    \/ Tick(CoarseStep)
    \/ start
    \/ stop
    \/ Worker(MaxShutdownFailures)
    \/ Evaluator
    \/ ShortRetry

FairShutdown ==
    /\ WF_vars(Tick(CoarseStep))
    /\ \A w \in 1..MaxLifecycleWorkers : WF_vars(ThreadStep(w, MaxShutdownFailures))

SpecShutdown == InitShutdown /\ [][NextShutdown]_vars /\ FairShutdown

\* The save scenario: one worker, multiple-choice tasks whose attempts may
\* fail until a task fails for good; the callback loops are recorded.
InitSave == InitWith({SmallConfig}, TRUE, MaxWorkers)

NextSave ==
    \/ Submit(MaxSaveTasks, {DefaultPriority}, 0)
    \/ Tick(CoarseStep)
    \/ start
    \/ Worker(MaxSaveFailures)
    \/ ShortRetry
    \/ LongRetry

SpecSave == InitSave /\ [][NextSave]_vars

\* The callback scenario: up to MaxCallbacks completion callbacks are
\* registered at any time, each of them raising or not; multiple-choice
\* tasks, an attempt may fail.
Register == \E raises \in BOOLEAN : on_complete(raises, MaxCallbacks)

NextCallbacks ==
    \/ Register
    \/ Submit(MaxCallbackTasks, {DefaultPriority}, 0)
    \/ Tick(CoarseStep)
    \/ start
    \/ Worker(MaxCallbackFailures)
    \/ ShortRetry

SpecCallbacks == Init /\ [][NextCallbacks]_vars

\* The dispatch scenario: tasks with up to MaxDispatchQuestions free-text
\* questions, any number of them answered with nothing; no attempt fails; the
\* Evaluator calls are recorded.
SubmitAnswers(maxTasks, maxQuestions) ==
    \E r \in ResultIds, e \in Exams, n \in 0..maxQuestions :
        \E b \in 0..n :
            add_task_answers(r, DefaultPriority, e, n, b, maxTasks) /\ UNCHANGED recovery

BlankAnswer == \E w \in WorkerIds : evaluate_subjective_blank(w)

NextDispatch ==
    \/ SubmitAnswers(MaxDispatchTasks, MaxDispatchQuestions)
    \/ Tick(CoarseStep)
    \/ start
    \/ Worker(0)
    \/ Evaluator
    \/ BlankAnswer

SpecDispatch == InitRate /\ [][NextDispatch]_vars

\* The administrator scenario: one submitted task that may fail for good (a
\* failure escalates at once), and the retry route, which may add a second
\* task for its result.
AdminRetry ==
    \E r \in ResultIds, e \in Exams, found \in BOOLEAN :
        retry_evaluation(r, e, 0, found, MaxAdminTasks)

NextAdmin ==
    \/ Submit(1, {DefaultPriority}, 0)
    \/ Tick(CoarseStep)
    \/ start
    \/ Worker(MaxAdminFailures)
    \/ LongRetry
    \/ AdminRetry

SpecAdmin == InitOrder /\ [][NextAdmin]_vars

\* The malformed-response scenario: tasks with up to MaxRateQuestions
\* free-text questions; a response parses and awards 0..MaxMarks marks, or
\* does not parse, or the call fails; a save may fail.
EvaluatorAnswer ==
    \E w \in WorkerIds, response \in {"parsed", "unparseable", "api_error"},
       m \in 0..MaxMarks :
        evaluate_subjective_answer(w, response, m)

NextMalformed ==
    \/ Submit(MaxTasks, {DefaultPriority}, MaxRateQuestions)
    \/ Tick(CoarseStep)
    \/ start
    \/ Worker(MaxMalformedFailures)
    \/ EvaluatorAnswer
    \/ ShortRetry

SpecMalformed == InitRate /\ [][NextMalformed]_vars

\* ================================================================ claims
Terminal(t) ==
    /\ loc[t] \in {"completed", "failed"}
    /\ status[tasks[t].result_id] \in {"completed", "failed"}

PauseReleased == \A e \in Exams : ~paused[e]

C2_EvaluatorFailureRetries ==
    [][\A w \in WorkerIds :
          (workers[w].pc = "eval" /\ workers[w].api_error
              /\ workers'[w].pc # "eval")
          => LET t == workers[w].task
             IN  /\ loc'[t] \in {"retry_timer", "long_timer", "failed"}
                 /\ tasks'[t].retry_count = tasks[t].retry_count + 1
                 /\ db_writes' = db_writes]_vars

AttemptFailed(t) ==
    /\ loc[t] = "worker"
    /\ loc'[t] \in {"retry_timer", "long_timer", "failed"}

FailedTasks(r) == {t \in TaskIds : tasks[t].result_id = r /\ loc[t] = "failed"}

C6_LongRetryCountMonotone ==
    [][\A t \in TaskIds :
          /\ tasks'[t].long_retry_count >= tasks[t].long_retry_count
          /\ (loc[t] = "long_timer" /\ loc'[t] = "queue")
                => tasks'[t].retry_count = 0]_vars

\* A task is back in the queue after a long-retry cycle.
C6_Witness ==
    \E t \in TaskIds :
        /\ loc[t] = "queue"
        /\ tasks[t].long_retry_count = 1
        /\ tasks[t].retry_count = 0
        /\ nfail >= tasks[t].max_retries

Queued == {t \in TaskIds : loc[t] = "queue"}

\* C7: the task a worker takes from the queue has the smallest priority
\* value of the tasks in the queue at that moment, and the queue holds
\* exactly the tasks that wait in it.
C7_MinPriorityFirst ==
    [][/\ {queue[i] : i \in 1..Len(queue)} = Queued
       /\ \A t \in Queued :
             loc'[t] # "queue"
                => \A u \in Queued : tasks[t].priority <= tasks[u].priority]_vars

\* Priorities 2, 0, 1 were enqueued in that order, none is dequeued yet, and
\* the task of priority 0 is the one a pop returns.
C7_Witness ==
    /\ Len(tasks) = 3
    /\ [t \in 1..3 |-> tasks[t].priority] = <<2, 0, 1>>
    /\ Queued = {1, 2, 3}
    /\ HeapTop(queue) = 2
    /\ tasks[HeapTop(HeapPop(tasks, queue))].priority = 1

\* C8: the task a worker takes from the queue has the earliest created_at of
\* the tasks of its priority in the queue at that moment.
C8_FifoWithinPriority ==
    [][\A t \in Queued :
          loc'[t] # "queue"
             => \A u \in Queued :
                   tasks[u].priority = tasks[t].priority
                      => tasks[t].created_at <= tasks[u].created_at]_vars

\* C9: a worker starts processing a task only when at least
\* 60 / requests_per_minute seconds have passed since a worker last did.
C9_StartsSpaced ==
    [][\A w \in WorkerIds :
          (workers[w].pc = "get" /\ workers'[w].pc = "eval")
             => since_start >= MinRequestInterval]_vars

\* C10: an Evaluator call starts only when at least
\* 60 / requests_per_minute seconds have passed since the previous one did.
C10_CallsSpaced ==
    [][\A w \in WorkerIds :
          workers'[w].calls_left < workers[w].calls_left
             => since_call >= MinRequestInterval]_vars

\* C11: the queue never holds two tasks of one result id.
C11_OneTaskPerResult ==
    \A t \in Queued : \A u \in Queued :
        tasks[t].result_id = tasks[u].result_id => t = u

\* The step is add_task for result id r.
AddTaskFor(r) ==
    /\ Len(tasks') = Len(tasks) + 1
    /\ tasks'[Len(tasks')].result_id = r

\* C14: in a step that is not add_task for a result id whose status is
\* completed or failed, the status stays, no task of the result id enters the
\* queue and the store gets no write for it.
C14_TerminalAbsorbing ==
    [][\A r \in ResultIds :
          (status[r] \in {"completed", "failed"} /\ ~AddTaskFor(r))
             => /\ status'[r] = status[r]
                /\ db_writes'[r] = db_writes[r]
                /\ mark_failed'[r] = mark_failed[r]
                /\ \A t \in TaskIds :
                      (tasks[t].result_id = r /\ loc'[t] = "queue")
                         => loc[t] = "queue"]_vars

\* C18: get_status gives can_view_results exactly for status completed and
\* is_complete exactly for status completed or failed.
C18_StatusFlags ==
    \A r \in ResultIds :
        /\ get_status(r).can_view_results <=> status[r] = "completed"
        /\ get_status(r).is_complete <=> status[r] \in {"completed", "failed"}

\* The step in which recover_pending_evaluations finishes.
RecoveryFinishes == recovery.pc # "done" /\ recovery'.pc = "done"

BetweenSaveAndStatus(r) ==
    \E w \in WorkerIds :
        /\ workers[w].pc = "saved"
        /\ tasks[workers[w].task].result_id = r

QueueState ==
    <<tasks, loc, timer, delay, queue, status, progress, processing,
      since_request, running, worker_thread, workers, paused, db_status,
      db_writes, mark_failed>>

\* C16: start() on a running queue creates no worker and changes no state;
\* stop() on a stopped queue changes no state.
C16_StartStopIdempotent ==
    [][/\ (start /\ running) => UNCHANGED QueueState
       /\ (stop /\ ~running) => UNCHANGED QueueState]_vars

\* Both calls have been made, the second stop() with the worker thread
\* still alive after the join.
C16_Witness ==
    /\ idle_calls = {"start", "stop"}
    /\ ~running
    /\ worker_thread # 0
    /\ Alive(worker_thread)
    /\ join_left = JoinTimeout

\* The scoring scenario: one call of evaluate_mcq_answer for every question,
\* answer, section configuration and scoring mode within the bounds.
Options == 0..MaxOption
MarkValues == {4, 10}
PenaltyValues == {25, 100}

Answers(maxLen) ==
    UNION {[1..n -> Options \cup {NonDigit}] : n \in 0..maxLen}

SectionConfigs ==
    {[present |-> FALSE, enabled |-> FALSE, mcq_negative_marks |-> 0,
      apply_to_unanswered |-> FALSE]}
    \cup [present : {TRUE}, enabled : BOOLEAN, mcq_negative_marks : PenaltyValues,
          apply_to_unanswered : BOOLEAN]

MultiSelectCalls ==
    [called : {FALSE},
     question : [is_multi_select : {TRUE}, correct_answers : SUBSET Options,
                 correct_answer : {0}, marks : MarkValues],
     candidate_answer : Answers(MaxAnswerLen),
     config : SectionConfigs,
     mode : {"partial", "strict"},
     result : {NoResult}]

SingleSelectCalls ==
    [called : {FALSE},
     question : [is_multi_select : {FALSE}, correct_answers : {{}},
                 correct_answer : Options, marks : MarkValues],
     candidate_answer : Answers(1),
     config : SectionConfigs,
     mode : {"partial", "strict"},
     result : {NoResult}]

InitMcq ==
    /\ InitQueue({SmallConfig}, FALSE, MaxWorkers)
    /\ mcq \in MultiSelectCalls \cup SingleSelectCalls

NextMcq == evaluate_mcq

SpecMcq == InitMcq /\ [][NextMcq]_vars

\* The submitted set S and the correct set C of the call held in mcq, and
\* the penalty per wrong selection that is configured and enabled for the
\* question's section.
Submitted == ParseSelections(mcq.candidate_answer)
Correct == mcq.question.correct_answers
Hits == Cardinality(Submitted \cap Correct)
Misses == Cardinality(Submitted \ Correct)
PerWrong ==
    IF mcq.config.present /\ mcq.config.enabled
    THEN mcq.config.mcq_negative_marks
    ELSE 0

MultiSelectCalled(mode) ==
    /\ mcq.called
    /\ mcq.question.is_multi_select
    /\ mcq.mode = mode

\* C19 (as stated): in partial mode S = C gets full marks and no penalty, any
\* other S gets exactly marks * (hits - misses) / |C| when hits > misses and
\* 0 otherwise, and the penalty per wrong selection times misses.
C19_PartialScoringExact ==
    MultiSelectCalled("partial") =>
        IF Submitted = Correct
        THEN /\ mcq.result.marks_obtained = 100 * mcq.question.marks
             /\ mcq.result.negative_marks_applied = 0
        ELSE /\ IF Hits > Misses
                THEN mcq.result.marks_obtained * Cardinality(Correct)
                        = 100 * mcq.question.marks * (Hits - Misses)
                ELSE mcq.result.marks_obtained = 0
             /\ mcq.result.negative_marks_applied = PerWrong * Misses

\* C19 (amended): in partial mode a non-empty S = C gets full marks and no
\* penalty; any other non-empty S gets marks * (hits - misses) / |C| rounded
\* to the hundredth when hits > misses and 0 otherwise, and the penalty per
\* wrong selection times misses; an empty S gets 0 and the penalty of one
\* wrong answer if the section applies penalties to unanswered questions.
C19_PartialScoring ==
    MultiSelectCalled("partial") =>
        IF Submitted = {}
        THEN /\ mcq.result.marks_obtained = 0
             /\ ~mcq.result.is_correct
             /\ mcq.result.negative_marks_applied =
                    IF mcq.config.apply_to_unanswered THEN PerWrong ELSE 0
        ELSE IF Submitted = Correct
        THEN /\ mcq.result.marks_obtained = 100 * mcq.question.marks
             /\ mcq.result.is_correct
             /\ mcq.result.negative_marks_applied = 0
        ELSE /\ ~mcq.result.is_correct
             /\ IF Hits > Misses
                THEN LET exact == 100 * mcq.question.marks * (Hits - Misses)
                         got == mcq.result.marks_obtained * Cardinality(Correct)
                     IN  /\ 2 * (got - exact) <= Cardinality(Correct)
                         /\ 2 * (exact - got) <= Cardinality(Correct)
                ELSE mcq.result.marks_obtained = 0
             /\ mcq.result.negative_marks_applied = PerWrong * Misses

\* The example: C = {0,2}, marks 10, S = {0,1}, one mark per wrong selection,
\* partial mode: no marks, a penalty of one mark.
C19_Witness ==
    /\ MultiSelectCalled("partial")
    /\ Correct = {0, 2}
    /\ mcq.question.marks = 10
    /\ mcq.candidate_answer = <<0, 1>>
    /\ PerWrong = 100
    /\ mcq.result.marks_obtained = 0
    /\ mcq.result.negative_marks_applied = 100

\* C20: in strict mode a non-empty S other than C gets no marks and the
\* penalty per wrong selection times |S - C| (nothing with no wrong
\* selection or with no enabled penalty for the section).
C20_StrictScoring ==
    (MultiSelectCalled("strict") /\ Submitted # Correct /\ Submitted # {}) =>
        /\ mcq.result.marks_obtained = 0
        /\ ~mcq.result.is_correct
        /\ mcq.result.negative_marks_applied = PerWrong * Misses

\* The example in strict mode, answered with an entry that is not an index
\* among the two that are: no marks, a penalty of one mark.
C20_Witness ==
    /\ MultiSelectCalled("strict")
    /\ Correct = {0, 2}
    /\ mcq.candidate_answer = <<0, NonDigit, 1>>
    /\ PerWrong = 100
    /\ mcq.result.marks_obtained = 0
    /\ mcq.result.negative_marks_applied = 100

\* A single-select call has been made; its answer is an index when it is one
\* entry of digits.
SingleSelectCalled == mcq.called /\ ~mcq.question.is_multi_select

Answered ==
    /\ Len(mcq.candidate_answer) = 1
    /\ mcq.candidate_answer[1] # NonDigit

\* C21: a single-select question is correct, with its full marks, exactly
\* when the submitted index is correct_answer; otherwise it gets no marks, a
\* wrong index is charged the penalty exactly when the section has an enabled
\* configuration, and a missing answer exactly when that configuration also
\* sets apply_to_unanswered.
C21_SingleSelectScoring ==
    SingleSelectCalled =>
        /\ mcq.result.is_correct
              <=> (Answered /\ mcq.candidate_answer[1] = mcq.question.correct_answer)
        /\ mcq.result.marks_obtained =
              IF mcq.result.is_correct THEN 100 * mcq.question.marks ELSE 0
        /\ mcq.result.negative_marks_applied =
              IF mcq.result.is_correct THEN 0
              ELSE IF Answered THEN PerWrong
              ELSE IF mcq.config.apply_to_unanswered THEN PerWrong ELSE 0

\* The example: correct_answer 2, marks 4, submitted "2".
C21_Witness ==
    /\ SingleSelectCalled
    /\ mcq.question.correct_answer = 2
    /\ mcq.question.marks = 4
    /\ mcq.candidate_answer = <<2>>
    /\ mcq.result.is_correct
    /\ mcq.result.marks_obtained = 400
    /\ mcq.result.negative_marks_applied = 0

\* The worker loops that have taken a task from the queue and are
\* processing it.
ProcessingWorkers == {w \in WorkerIds : workers[w].pc = "eval"}

\* C22: whatever start() and stop() calls are made, at most one worker loop
\* consumes the queue at a time: no two worker loops are processing a task
\* they took from it at the same time.
C22_SingleConsumer == Cardinality(ProcessingWorkers) <= 1

\* C23: no task is dropped from memory while the status of its result still
\* reads pending or processing (so that it is evaluated again after a later
\* start()).
C23_NoTaskDropped ==
    \A t \in TaskIds :
        loc[t] = "dropped"
           => status[tasks[t].result_id] \notin {"pending", "processing"}

\* C24: once stop() has cleared _running, and unless start() sets it again,
\* every worker loop eventually ends; a loop that reaches its test of
\* _running with _running cleared does nothing but end, and between two
\* tests a loop takes at most one task: it takes a task only on its way from
\* the test, directly or through the rate limiter's sleep, and is back at
\* the test after it.
C24_WorkerExitsAfterStop ==
    /\ \A w \in 1..MaxLifecycleWorkers :
          (~running /\ workers[w].pc # "none")
             ~> (running \/ workers[w].pc = "none")
    /\ [][\A w \in WorkerIds :
             /\ (workers[w].pc = "loop" /\ ~running /\ workers'[w] # workers[w])
                   => workers'[w].pc = "none"
             /\ (workers[w].pc # "get" /\ workers'[w].pc = "get")
                   => workers[w].pc \in {"loop", "ratesleep"}
             /\ (workers[w].pc # "ratesleep" /\ workers'[w].pc = "ratesleep")
                   => workers[w].pc = "loop"
             /\ (workers[w].pc = "get" /\ workers'[w] # workers[w])
                   => workers'[w].pc \in {"loop", "eval", "error_sleep"}
             /\ (workers[w].pc = "eval" /\ workers'[w].pc # "eval")
                   => workers'[w].pc \in {"loop", "error_sleep"}
             /\ (workers[w].pc # "get" /\ workers'[w] # workers[w])
                   => Len(queue') >= Len(queue)]_vars

\* With _running cleared a worker is still inside the iteration it was in,
\* before an Evaluator call of the task it took, after an earlier task was
\* completed.
C24_Witness ==
    \E w \in WorkerIds :
        /\ ~running
        /\ workers[w].pc = "eval"
        /\ workers[w].calls_left > 0
        /\ \E t \in TaskIds : loc[t] = "completed"

\* A worker is evaluating a task of result id r.
Evaluating(r) ==
    \E w \in WorkerIds :
        /\ workers[w].pc = "eval"
        /\ tasks[workers[w].task].result_id = r

\* C25: get_queue_stats counts at most one result as processing, and a
\* result has status processing only while a worker is evaluating a task of
\* it, never while its task waits in a timer or in the queue.
C25_ProcessingOnlyWhileEvaluating ==
    /\ get_queue_stats.processing <= 1
    /\ \A r \in ResultIds : status[r] = "processing" => Evaluating(r)

\* Worker w ends its attempt on its task in this step and the Durable Store
\* has not written the evaluation of the task's result.
AttemptEndsUnsaved(w) ==
    /\ workers[w].pc = "eval"
    /\ workers'[w].pc # "eval"
    /\ db_writes' = db_writes

\* C26: an attempt whose result the Durable Store did not write is a failed
\* attempt: the result is not marked completed, the completion callbacks do
\* not run, retry_count goes up by one, and the task goes to the short-retry
\* timer with its backoff delay, to the long-retry timer, or fails for good.
C26_FailedSaveIsFailedAttempt ==
    [][\A w \in WorkerIds :
          AttemptEndsUnsaved(w) =>
              LET t == workers[w].task
                  r == tasks[t].result_id
                  rc == tasks[t].retry_count + 1
              IN  /\ status'[r] \in {status[r], "failed"}
                  /\ progress'[r].status \in {"retrying", "long_retry_pending", "failed"}
                  /\ progress'[r].can_view_results = progress[r].can_view_results
                  /\ progress'[r].completed_at = progress[r].completed_at
                  /\ callbacks' \ callbacks \subseteq {<<"error", r>>}
                  /\ tasks'[t].retry_count = rc
                  /\ nfail' = nfail + 1
                  /\ loc'[t] \in {"retry_timer", "long_timer", "failed"}
                  /\ loc'[t] = "retry_timer" <=> rc < tasks[t].max_retries
                  /\ loc'[t] = "retry_timer" =>
                         timer'[t] = RetryDelay(cfg.retry_delay_base,
                                                cfg.max_retry_delay, rc)
                  /\ loc'[t] = "long_timer" =>
                         /\ timer'[t] = cfg.long_retry_delay
                         /\ tasks'[t].long_retry_count = tasks[t].long_retry_count + 1
                  /\ loc'[t] = "failed" => status'[r] = "failed"]_vars

\* A task waits in the short-retry timer after its first attempt was not
\* saved; its result is not completed and no completion callback has run.
C26_Witness ==
    \E t \in TaskIds :
        /\ loc[t] = "retry_timer"
        /\ tasks[t].retry_count = 1
        /\ db_writes[tasks[t].result_id] = 0
        /\ status[tasks[t].result_id] = "processing"
        /\ callbacks = {}

\* C27: whenever the status of a result is failed, the Durable Store records
\* the result as failed, so that get_pending_results_for_recovery does not
\* return it after a restart.
C27_FailedIsStoredFailed ==
    \A r \in ResultIds :
        status[r] = "failed" =>
            /\ db_status[r] = "failed"
            /\ r \notin PendingResults

\* The long-retry timer of task t ends in this step and puts t back.
LongRetryRepush(t) == loc[t] = "long_timer" /\ loc'[t] = "queue"

\* Task t has been through a long-retry cycle and waits in the queue.
LongRetriedWaiting(t) == loc[t] = "queue" /\ tasks[t].long_retry_count > 0

\* C28: a task that a long-retry cycle puts back has priority 0, and the put
\* leaves the worker and the task it is evaluating as they are; the worker
\* takes no task of priority 1 or more from the queue while a long-retried
\* task waits in it.
C28_LongRetryFirst ==
    [][/\ \A t \in TaskIds :
             LongRetryRepush(t) =>
                 /\ tasks'[t].priority = 0
                 /\ HeapTop(queue') = t \/ tasks[HeapTop(queue')].priority = 0
                 /\ workers' = workers
                 /\ processing' = processing
                 /\ \A u \in TaskIds \ {t} : loc'[u] = loc[u] /\ tasks'[u] = tasks[u]
       /\ \A u \in TaskIds :
             (/\ loc[u] = "queue"
              /\ loc'[u] # "queue"
              /\ tasks[u].priority >= DefaultPriority)
                 => ~\E t \in TaskIds : LongRetriedWaiting(t)]_vars

\* A long-retried task is at the top of the queue, ahead of a task of
\* default priority that was created earlier than the re-push and still
\* waits, while the worker evaluates a third task.
C28_Witness ==
    \E t, u, v \in TaskIds :
        /\ LongRetriedWaiting(t)
        /\ tasks[t].priority = 0
        /\ HeapTop(queue) = t
        /\ loc[u] = "queue"
        /\ tasks[u].priority = DefaultPriority
        /\ loc[v] = "worker"
        /\ \E w \in WorkerIds : workers[w].pc = "eval" /\ workers[w].task = v

\* has_subjective = any(q['type'] in ['short', 'essay'] for q in task.questions)
has_subjective(t) == tasks[t].nfree > 0

\* Task t has a free-text question whose answer is not blank.
HasAnsweredFreeText(t) == tasks[t].nfree > tasks[t].nblank

C32_MutationsUnderLock == unlocked_writes = {}

\* C33: the retry counters of every task stay within their limits, and a
\* task that waits in the queue or in a short-retry timer has short retries
\* left.
C33_CountersBounded ==
    \A t \in TaskIds :
        /\ 0 <= tasks[t].retry_count
        /\ tasks[t].retry_count <= tasks[t].max_retries
        /\ 0 <= tasks[t].long_retry_count
        /\ tasks[t].long_retry_count <= tasks[t].max_long_retries + 1
        /\ loc[t] \in {"queue", "retry_timer"} =>
               tasks[t].retry_count < tasks[t].max_retries

\* A task has failed for good with both counters at their largest values.
C33_Witness ==
    \E t \in TaskIds :
        /\ loc[t] = "failed"
        /\ tasks[t].retry_count = tasks[t].max_retries
        /\ tasks[t].long_retry_count = tasks[t].max_long_retries + 1

\* C34: the total-attempts figure of a failed progress entry is the number
\* of attempts made for the task (one task, every attempt of which failed:
\* the number of failed attempts so far).
C34_TotalAttemptsExact ==
    \A t \in TaskIds :
        loc[t] = "failed" =>
            progress[tasks[t].result_id].total_attempts = nfail

\* The retry route answers for result r in this step.
RetryAnswered(r) == retry_reply'[r] # retry_reply[r]

\* A task of result r has failed for good and the result still reads failed.
FailedForGood(r) ==
    /\ status[r] = "failed"
    /\ \E t \in TaskIds : tasks[t].result_id = r /\ loc[t] = "failed"

\* C35: a retry for a result that has failed for good re-enters it as a new
\* task of priority 0 with both counters at 0 and status pending (unless the
\* stored result cannot be read back); the route refuses a result whose
\* stored status is not failed.
C35_AdminRetryReenters ==
    [][\A r \in ResultIds :
          RetryAnswered(r) =>
              /\ FailedForGood(r) => retry_reply'[r] \in {"requeued", "error"}
              /\ retry_reply'[r] = "requeued" =>
                     LET t == Len(tasks')
                     IN  /\ Len(tasks') = Len(tasks) + 1
                         /\ tasks'[t].result_id = r
                         /\ tasks'[t].priority = 0
                         /\ tasks'[t].retry_count = 0
                         /\ tasks'[t].long_retry_count = 0
                         /\ loc'[t] = "queue"
                         /\ status'[r] = "pending"
                         /\ progress'[r] = PendingProgress
                         /\ db_status'[r] = "pending"
              /\ db_status[r] # "failed" =>
                     /\ retry_reply'[r] = "refused"
                     /\ UNCHANGED <<tasks, queue, status, progress, db_status>>]_vars

\* One of the question results is that of an unparseable response.
HasUnparseable(results) ==
    \E i \in 1..Len(results) : results[i].response = "unparseable"

\* C36: a free-text question whose response does not parse gets 0 marks and
\* is flagged for manual review, in a step that leaves the results of the
\* other questions, the task and its status alone and lets the evaluation go
\* on; when the result of such an evaluation is saved the task ends
\* completed with that result stored and its counters as they were.
C36_UnparseableQuestionOnly ==
    [][\A w \in WorkerIds :
          LET qr == workers[w].question_results
              qr2 == workers'[w].question_results
              t == workers[w].task
              r == tasks[t].result_id
          IN  /\ (/\ workers[w].pc = "eval"
                  /\ workers'[w].pc = "eval"
                  /\ Len(qr2) = Len(qr) + 1
                  /\ qr2[Len(qr2)].response = "unparseable")
                    => /\ qr2[Len(qr2)].marks_obtained = 0
                       /\ qr2[Len(qr2)].needs_manual_review
                       /\ SubSeq(qr2, 1, Len(qr)) = qr
                       /\ workers'[w].calls_left = workers[w].calls_left - 1
                       /\ UNCHANGED <<tasks, loc, status, progress, nfail, db_writes>>
              /\ (/\ workers[w].pc = "eval"
                  /\ workers'[w].pc # "eval"
                  /\ HasUnparseable(qr)
                  /\ db_writes' # db_writes)
                    => /\ loc'[t] = "completed"
                       /\ status'[r] = "completed"
                       /\ db_status'[r] = "completed"
                       /\ db_result'[r] = qr
                       /\ tasks'[t] = tasks[t]
                       /\ nfail' = nfail]_vars

\* A task with two free-text questions has completed at its first attempt;
\* the stored result holds an unparseable question with 0 marks, flagged, and
\* a parsed one with full marks, not flagged.
C36_Witness ==
    \E t \in TaskIds :
        LET r == tasks[t].result_id
        IN  /\ loc[t] = "completed"
            /\ status[r] = "completed"
            /\ tasks[t].retry_count = 0
            /\ tasks[t].long_retry_count = 0
            /\ db_status[r] = "completed"
            /\ Len(db_result[r]) = 2
            /\ \E i, j \in 1..2 :
                   /\ db_result[r][i] = QuestionResult("unparseable", 0)
                   /\ db_result[r][i].needs_manual_review
                   /\ db_result[r][j].response = "parsed"
                   /\ db_result[r][j].marks_obtained = MaxMarks
                   /\ ~db_result[r][j].needs_manual_review

\* The worker takes task t from the queue and finds its exam paused.
PausedDequeue(t) ==
    /\ loc[t] = "queue"
    /\ loc'[t] # "queue"
    /\ paused[tasks[t].exam_id]

\* C13: a task taken from the queue with its exam paused is not evaluated,
\* nothing is written to the store, its counters stay, and it waits the
\* re-check delay; when the delay is over the same task is pushed back to
\* the queue (a task whose delay ends after stop() is dropped instead).
C13_PausedTaskRechecked ==
    [][\A t \in TaskIds :
          /\ PausedDequeue(t)
                => /\ loc'[t] = "pause_timer"
                   /\ timer'[t] = PauseRecheckDelay
                   /\ tasks'[t] = tasks[t]
                   /\ \A w \in WorkerIds : workers'[w].task # t
                   /\ UNCHANGED <<db_status, db_writes, mark_failed>>
          /\ (loc[t] = "pause_timer" /\ loc'[t] # "pause_timer")
                => /\ timer[t] = 0
                   /\ tasks'[t] = tasks[t]
                   /\ IF running
                      THEN loc'[t] = "queue" /\ \E i \in 1..Len(queue') : queue'[i] = t
                      ELSE loc'[t] = "dropped"]_vars

\* C29: taking a paused task from the queue records no new last-dispatch
\* time, so the task the worker takes next does not wait a rate-limit
\* interval because of it.
C29_PausedTaskSkipsRateLimit ==
    [][\A t \in TaskIds : PausedDequeue(t) => since_request' = since_request]_vars

\* Every question of task t is multiple-choice: has_subjective is False.
ObjectiveOnly(t) == tasks[t].nfree = 0

\* C30: a worker does not sleep for the minimum interval when the task it
\* is about to take is objective-only, and the end of the processing of an
\* objective-only task records no new last-dispatch time.
C30_ObjectiveOnlyBypassesRateLimit ==
    [][\A w \in WorkerIds :
          /\ (workers[w].pc = "loop" /\ workers'[w].pc = "ratesleep" /\ queue # <<>>)
                 => ~ObjectiveOnly(HeapTop(queue))
          /\ (/\ workers[w].pc = "eval"
              /\ workers'[w].pc # "eval"
              /\ ObjectiveOnly(workers[w].task))
                 => since_request' = since_request]_vars

\* clear_old_status removes the entry of result r in this step.
EntryRemoved(r) == status[r] # "none" /\ status'[r] = "none" /\ progress'[r] = NoProgress

\* C37: the cleanup removes an entry only if it is terminal and its
\* completed_at or failed_at is older than the retention window; the entry
\* of a result that is pending, paused, processing, retrying or
\* long_retry_pending stays.
C37_CleanupOnlyTerminal ==
    [][\A r \in ResultIds :
          EntryRemoved(r) =>
              /\ r \in OldEntries
              /\ status[r] \in {"completed", "failed"}
              /\ progress[r].status \in {"completed", "failed"}]_vars

\* Every task of result r has completed: none of them is queued, waiting on a
\* timer or with the worker.
EvaluationCompleted(r) ==
    /\ \E t \in TaskIds : tasks[t].result_id = r
    /\ \A t \in TaskIds : tasks[t].result_id = r => loc[t] = "completed"

\* C38: once the evaluation of result r has completed and get_status reports
\* completed, every later get_status for r reports completed as long as no
\* add_task for r happens, also after the periodic cleanup.
C38_CompletedStaysCompleted ==
    [][\A r \in ResultIds :
          (/\ EvaluationCompleted(r)
           /\ get_status(r).status = "completed"
           /\ ~AddTaskFor(r))
             => get_status(r).status' = "completed"]_vars

\* The completion callbacks are called for result r in this step.
CallbacksRunFor(r) == \E i \in 1..MaxCallbacks : <<r, i>> \in callback_calls' \ callback_calls

\* C39: the completion callbacks for a result run only in a step that has
\* persisted the result and set its status to completed; whether or not one
\* of them raises, the status is completed after the step, no task's retry
\* counters change, no failed attempt is counted, the task is done, and every
\* registered callback has been called.
C39_CallbacksBestEffort ==
    [][\A r \in ResultIds :
          CallbacksRunFor(r) =>
              /\ db_writes'[r] = db_writes[r] + 1
              /\ db_status'[r] = "completed"
              /\ status'[r] = "completed"
              /\ get_status(r).status' = "completed"
              /\ tasks' = tasks
              /\ nfail' = nfail
              /\ \A t \in TaskIds : loc'[t] \notin {"retry_timer", "long_timer"} \/ loc'[t] = loc[t]
              /\ \A i \in 1..Len(on_complete_callbacks) : <<r, i>> \in callback_calls']_vars

\* The first of two registered callbacks raises, and both have been called
\* for a result that is completed.
C39_Witness ==
    /\ Len(on_complete_callbacks) = 2
    /\ on_complete_callbacks[1]
    /\ \E r \in ResultIds :
          /\ {<<r, 1>>, <<r, 2>>} \subseteq callback_calls
          /\ status[r] = "completed"
          /\ db_status[r] = "completed"

\* C15: a worker thread ends only from the test of _running at the top of
\* its loop, with _running cleared by stop(); whatever happens to a task,
\* the worker is back at the top of the loop, at once or after a sleep of
\* at most ErrorSleep seconds.
C15_WorkerLoopSurvives ==
    [][\A w \in WorkerIds :
          /\ (Alive(w) /\ workers'[w].pc = "none")
                => ~running /\ workers[w].pc = "loop"
          /\ (workers[w].pc = "get" /\ workers'[w].pc # "get")
                => workers'[w].pc \in {"eval", "loop", "error_sleep"}
          /\ (workers[w].pc = "eval" /\ workers'[w].pc # "eval")
                => workers'[w].pc \in {"loop", "error_sleep"}
          /\ workers'[w].pc = "error_sleep"
                => workers'[w].sleep <= ErrorSleep /\ workers'[w].task = 0
          /\ (workers[w].pc = "error_sleep" /\ workers'[w].pc # "error_sleep")
                => workers'[w].pc = "loop"]_vars

\* An exception has left _process_task and a task was lost with it, an
\* attempt has failed, and the worker is evaluating a later task.
C15_Witness ==
    \E w \in WorkerIds, t1 \in TaskIds, t2 \in TaskIds :
        /\ loc[t1] = "lost"
        /\ nfail > 0
        /\ running
        /\ workers[w].pc = "eval"
        /\ workers[w].task = t2
        /\ t2 > t1

\* The cleanup scenario: results with more than one task, pauses, a failed
\* attempt, stop() and start(), days passing, clear_old_status.
NextCleanup ==
    \/ Submit(MaxCleanupTasks, {DefaultPriority}, 0)
    \/ Pause
    \/ Tick(CoarseStep)
    \/ day_passes
    \/ start
    \/ stop
    \/ Worker(MaxCleanupFailures)
    \/ \E w \in WorkerIds : clear_old_status(w)
    \/ \E w \in WorkerIds : error_wake(w)
    \/ ShortRetry
    \/ PauseRecheck

SpecCleanup == Init /\ [][NextCleanup]_vars

\* The recovery scenario: submissions after startup, the completion in its
\* two steps, a crash at any point, and the startup that follows.
NextRecovery ==
    \/ \E r \in ResultIds, e \in Exams : submit_exam(r, e, 0, MaxTasks)
    \/ Tick(CoarseStep)
    \/ crash
    \/ stop
    \/ startup_start
    \/ \E ok \in BOOLEAN : get_pending_results_for_recovery(ok)
    \/ \E r \in ResultIds, e \in Exams : recover_add(r, e, 0, MaxTasks)
    \/ \E w \in WorkerIds : worker_loop(w)
    \/ \E w \in WorkerIds : rate_limit_wake(w)
    \/ \E w \in WorkerIds : process_task(w)
    \/ \E w \in WorkerIds : save_evaluation_result(w)
    \/ \E w \in WorkerIds : mark_completed(w)
    \/ \E w \in WorkerIds, marked \in BOOLEAN :
          finish_task(w, FALSE, marked, MaxRecoveryFailures)
    \/ ShortRetry

SpecRecovery == Init /\ [][NextRecovery]_vars

====
